---- MODULE Spec2Model ----
(***************************************************************************)
(* Model of the quick-file-open service of the file-search extension       *)
(* (packages/file-search/src/browser/quick-file-open.ts).                  *)
(*                                                                         *)
(* Strings are sequences of one-character strings.  A URI is an index      *)
(* into the table Paths; its string form is "file://" followed by its     *)
(* path, its label is the last path segment.  Every asynchronous function *)
(* of the source is cut at its awaits: one action runs from one await to  *)
(* the next, which is the atomicity the JavaScript event loop gives.      *)
(***************************************************************************)
EXTENDS Integers, Sequences, FiniteSets, TLC

(***************************************************************************)
(* Bounds                                                                  *)
(***************************************************************************)
\* number of onType invocations that pass the roots check
MaxCalls == 2
\* depth at which the engine gives up a runaway recursion (RangeError)
MaxStack == 4
\* the limit option passed to find (200 in the source), scaled down
Limit == 2

\* the number of SCM repositories up to which git events are followed
MaxScmRepositories == 3
\* number of registerViewContainer calls
MaxContainers == 2
\* number of callbacks started by onRegisterTreeView calls
MaxTreeCalls == 2

(***************************************************************************)
(* Strings                                                                 *)
(***************************************************************************)
LowerLetters == <<"a", "b", "c", "d", "x">>
UpperLetters == <<"A", "B", "C", "D", "X">>

\* String.prototype.toLowerCase, one character
LowerChar(c) ==
    IF \E k \in 1..Len(UpperLetters) : UpperLetters[k] = c
    THEN LowerLetters[CHOOSE k \in 1..Len(UpperLetters) : UpperLetters[k] = c]
    ELSE c

RECURSIVE ToLowerCase(_)
ToLowerCase(s) ==
    IF s = <<>> THEN <<>> ELSE <<LowerChar(Head(s))>> \o ToLowerCase(Tail(s))

IsAsciiLetter(c) ==
    \/ \E k \in 1..Len(LowerLetters) : LowerLetters[k] = c
    \/ \E k \in 1..Len(UpperLetters) : UpperLetters[k] = c

\* s.replace(/[^a-zA-Z ]/g, '')
RECURSIVE StripNonLetters(_)
StripNonLetters(s) ==
    IF s = <<>> THEN <<>>
    ELSE IF IsAsciiLetter(Head(s)) \/ Head(s) = " "
         THEN <<Head(s)>> \o StripNonLetters(Tail(s))
         ELSE StripNonLetters(Tail(s))

\* String.prototype.trim
RECURSIVE TrimLeft(_)
TrimLeft(s) ==
    IF s # <<>> /\ Head(s) = " " THEN TrimLeft(Tail(s)) ELSE s

RECURSIVE TrimRight(_)
TrimRight(s) ==
    IF s # <<>> /\ s[Len(s)] = " " THEN TrimRight(SubSeq(s, 1, Len(s) - 1)) ELSE s

Trim(s) == TrimRight(TrimLeft(s))

\* String.prototype.indexOf: lowest 0-based offset of q in s, -1 when absent
IndexOf(s, q) ==
    LET hits == {k \in 0..(Len(s) - Len(q)) : SubSeq(s, k + 1, k + Len(q)) = q}
    IN  IF hits = {} THEN -1 ELSE CHOOSE k \in hits : \A m \in hits : k <= m

\* collation rank of a normalised character: the space sorts before the letters
CharRank(c) ==
    IF c = " " THEN 0
    ELSE CHOOSE k \in 1..Len(LowerLetters) : LowerLetters[k] = c

\* String.prototype.localeCompare on normalised keys, as a sign
RECURSIVE LocaleCompare(_, _)
LocaleCompare(s, t) ==
    IF s = <<>> /\ t = <<>> THEN 0
    ELSE IF s = <<>> THEN -1
    ELSE IF t = <<>> THEN 1
    ELSE IF CharRank(Head(s)) < CharRank(Head(t)) THEN -1
    ELSE IF CharRank(Head(s)) > CharRank(Head(t)) THEN 1
    ELSE LocaleCompare(Tail(s), Tail(t))

\* fuzzy.test(pattern, str): the pattern's characters occur in str in order,
\* compared without case
RECURSIVE IsSubsequence(_, _)
IsSubsequence(p, s) ==
    IF p = <<>> THEN TRUE
    ELSE IF s = <<>> THEN FALSE
    ELSE IF Head(p) = Head(s) THEN IsSubsequence(Tail(p), Tail(s))
    ELSE IsSubsequence(p, Tail(s))

FuzzyTest(pattern, str) == IsSubsequence(ToLowerCase(pattern), ToLowerCase(str))

(***************************************************************************)
(* URIs                                                                    *)
(***************************************************************************)
Paths == <<
    <<"/", "a", "/", "a", "b">>,
    <<"/", "b", "/", "a", "b">>,
    <<"/", "1", "/", "a", "b">>,
    <<"/", "2", "/", "a", "b">>,
    <<"/", "a", "/", "x", "A", "b">>,
    <<"/", "a", "/", "b", "/", "c", "d">>,
    <<"/", "a", "/", "a", "b", "c">>,
    <<"/", "a", "/", "a", "b", "d">>,
    <<"/", "a", "/", "c", "x", "a", "b">> >>

Uris == 1..Len(Paths)

\* uri.path.toString()
UriPath(u) == Paths[u]

\* uri.toString()
UriString(u) == <<"f", "i", "l", "e", ":", "/", "/">> \o Paths[u]

\* labelProvider.getName(uri): the last segment of the path
RECURSIVE Basename(_)
Basename(p) ==
    IF p = <<>> THEN <<>>
    ELSE IF p[Len(p)] = "/" THEN <<>>
    ELSE Basename(SubSeq(p, 1, Len(p) - 1)) \o <<p[Len(p)]>>

UriLabel(u) == Basename(Paths[u])

\* the queries typed by the user
Queries == { <<>>, <<"a", "b">>, <<"A", "A">> }

\* the queries the comparator is exercised with: also with blanks around
\* the text
CompareQueries == Queries \cup { <<" ", "a", "b">>, <<"a", "b", " ">>, <<"c">> }

\* navigation histories, most recent last
Histories == { <<>>, <<6, 1, 5, 1>> }

\* lists the file search can resolve with
ResultLists == { <<>>, <<3, 4>>, <<5, 6, 5>>, <<6, 2, 5>> }

(***************************************************************************)
(* Items and the relevance comparator                                      *)
(***************************************************************************)
NoGroup == "none"

\* toItem(uriOrString, group): a QuickOpenGroupItem when a group is given, a
\* plain QuickOpenItem otherwise
toItem(u, group) == [group |-> group, uri |-> u]

\* a[member](), converted to a string when it is the URI
MemberString(item, member) ==
    IF member = "getLabel" THEN UriLabel(item.uri) ELSE UriPath(item.uri)

\* the normalisation of the query: lower-cased and stripped, not trimmed
NormalizeQuery(lookFor) == StripNonLetters(ToLowerCase(lookFor))

\* the normalisation of a comparison key: trimmed, lower-cased and stripped
NormalizeKey(s) == StripNonLetters(ToLowerCase(Trim(s)))

\* mutant of cmp: the larger number first
cmpDescending(x, y) == IF x = y THEN 0 ELSE IF x > y THEN -1 ELSE 1

cmp(x, y) == IF x = y THEN 0 ELSE IF x > y THEN 1 ELSE -1

\* mutant of ComparePass: at equal offsets the longer key first
ComparePassLongerFirst(a, b, lookFor, member) ==
    LET query  == NormalizeQuery(lookFor)
        itemA  == NormalizeKey(MemberString(a, member))
        itemB  == NormalizeKey(MemberString(b, member))
        indexA == IndexOf(itemA, query)
        indexB == IndexOf(itemB, query)
        ret(v) == [recurse |-> FALSE, value |-> v]
    IN  IF indexA = -1 /\ indexB = -1 THEN ret(0)
        ELSE IF indexA = -1 \/ indexB = -1 THEN ret(IF indexA = -1 THEN 1 ELSE -1)
        ELSE IF indexA = indexB
             THEN IF Len(itemA) # Len(itemB)
                  THEN ret(IF Len(itemA) < Len(itemB) THEN 1 ELSE -1)
                  ELSE IF LocaleCompare(itemA, itemB) = 0
                       THEN [recurse |-> TRUE, value |-> 0]
                       ELSE ret(LocaleCompare(itemA, itemB))
             ELSE ret(cmp(indexA, indexB))

\* mutant of ComparePass: the item that does not match first
ComparePassUnmatchedFirst(a, b, lookFor, member) ==
    LET query  == NormalizeQuery(lookFor)
        itemA  == NormalizeKey(MemberString(a, member))
        itemB  == NormalizeKey(MemberString(b, member))
        indexA == IndexOf(itemA, query)
        indexB == IndexOf(itemB, query)
        ret(v) == [recurse |-> FALSE, value |-> v]
    IN  IF indexA = -1 /\ indexB = -1 THEN ret(0)
        ELSE IF indexA = -1 \/ indexB = -1 THEN ret(IF indexA = -1 THEN -1 ELSE 1)
        ELSE IF indexA = indexB
             THEN IF Len(itemA) # Len(itemB)
                  THEN ret(IF Len(itemA) < Len(itemB) THEN -1 ELSE 1)
                  ELSE IF LocaleCompare(itemA, itemB) = 0
                       THEN [recurse |-> TRUE, value |-> 0]
                       ELSE ret(LocaleCompare(itemA, itemB))
             ELSE ret(cmp(indexA, indexB))

\* mutant of ComparePass: items that do not match are ordered by their keys
ComparePassUnmatchedByKey(a, b, lookFor, member) ==
    LET query  == NormalizeQuery(lookFor)
        itemA  == NormalizeKey(MemberString(a, member))
        itemB  == NormalizeKey(MemberString(b, member))
        indexA == IndexOf(itemA, query)
        indexB == IndexOf(itemB, query)
        ret(v) == [recurse |-> FALSE, value |-> v]
    IN  IF indexA = -1 /\ indexB = -1 THEN ret(LocaleCompare(itemA, itemB))
        ELSE IF indexA = -1 \/ indexB = -1 THEN ret(IF indexA = -1 THEN 1 ELSE -1)
        ELSE IF indexA = indexB
             THEN IF Len(itemA) # Len(itemB)
                  THEN ret(IF Len(itemA) < Len(itemB) THEN -1 ELSE 1)
                  ELSE IF LocaleCompare(itemA, itemB) = 0
                       THEN [recurse |-> TRUE, value |-> 0]
                       ELSE ret(LocaleCompare(itemA, itemB))
             ELSE ret(cmp(indexA, indexB))

\* One activation of compareItems, up to its return or its recursive call:
\* recurse is TRUE when it calls compareItems(a, b, 'getUri'), and value is
\* what it returns otherwise.
ComparePass(a, b, lookFor, member) ==
    LET query  == NormalizeQuery(lookFor)
        itemA  == NormalizeKey(MemberString(a, member))
        itemB  == NormalizeKey(MemberString(b, member))
        indexA == IndexOf(itemA, query)
        indexB == IndexOf(itemB, query)
        ret(v) == [recurse |-> FALSE, value |-> v]
    IN  IF indexA = -1 /\ indexB = -1 THEN ret(0)
        ELSE IF indexA = -1 \/ indexB = -1 THEN ret(IF indexA = -1 THEN 1 ELSE -1)
        ELSE IF indexA = indexB
             THEN IF Len(itemA) # Len(itemB)
                  THEN ret(IF Len(itemA) < Len(itemB) THEN -1 ELSE 1)
                  ELSE IF LocaleCompare(itemA, itemB) = 0
                       THEN [recurse |-> TRUE, value |-> 0]
                       ELSE ret(LocaleCompare(itemA, itemB))
             ELSE ret(cmp(indexA, indexB))

\* compareItems(a, b) never returns: the recursive call always passes
\* 'getUri', so an activation on 'getUri' that ties calls itself with the very
\* same arguments, until the engine raises a RangeError for the exhausted stack.
CompareDiverges(a, b, lookFor) ==
    /\ ComparePass(a, b, lookFor, "getLabel").recurse
    /\ ComparePass(a, b, lookFor, "getUri").recurse

\* the number compareItems(a, b) returns, when it returns
compareItems(a, b, lookFor) ==
    IF ComparePass(a, b, lookFor, "getLabel").recurse
    THEN ComparePass(a, b, lookFor, "getUri").value
    ELSE ComparePass(a, b, lookFor, "getLabel").value

\* mutant of SortItems: the copy is not sorted
SortItemsUnsorted(items, lookFor) == items

\* Array.prototype.sort with the comparator: a stable insertion of each
\* element behind the last element that does not sort after it.
RECURSIVE InsertSorted(_, _, _)
InsertSorted(sorted, x, lookFor) ==
    IF sorted = <<>> THEN <<x>>
    ELSE IF compareItems(sorted[Len(sorted)], x, lookFor) <= 0
         THEN Append(sorted, x)
         ELSE Append(InsertSorted(SubSeq(sorted, 1, Len(sorted) - 1), x, lookFor),
                     sorted[Len(sorted)])

RECURSIVE SortItems(_, _)
SortItems(items, lookFor) ==
    IF items = <<>> THEN <<>>
    ELSE InsertSorted(SortItems(SubSeq(items, 1, Len(items) - 1), lookFor),
                      items[Len(items)], lookFor)

\* The sort throws when a comparison throws.  Two items whose comparison
\* diverges compare alike against every other item, so no comparison sort can
\* place them without comparing them with each other.
SortThrows(items, lookFor) ==
    \E i, j \in 1..Len(items) :
        i # j /\ CompareDiverges(items[i], items[j], lookFor)

\* the ids of the view containers given to registerViewContainer
ContainerIds == {"c1", "c2"}

(***************************************************************************)
(* State                                                                   *)
(***************************************************************************)
VARIABLES
    hideIgnoredFiles,   \* QuickFileOpenService.hideIgnoredFiles
    isOpen,             \* QuickFileOpenService.isOpen
    currentLookFor,     \* QuickFileOpenService.currentLookFor
    locations,          \* navigationLocationService.locations(), newest last
    invs,               \* the onType invocations that passed the roots check
    cmpArgs,            \* arguments of the compareItems call being traced
    cmpStack,           \* 'member' of each active compareItems activation
    cmpOutcome,         \* how the traced compareItems call ended
    sortInput,          \* the array a traced sort is applied to
    sortLookFor,        \* currentLookFor during the traced sort
    sortOutput,         \* the array after the traced sort
    sortState,          \* "input", then "sorted" or "threw"
    netInput,           \* the string s given to the functions of namespace net
    netCalled,          \* the functions of net that have been applied to it
    netIsIPv4,          \* what net.isIPv4(s) returned
    netIsIPv6,          \* what net.isIPv6(s) returned
    netIsIP,            \* what net.isIP(s) returned
    gitStarted,         \* GitViewContribution.onStart has run
    allRepositories,    \* repositoryProvider.allRepositories, by localUri
    dirtyRepositories,  \* GitViewContribution.dirtyRepositories, by localUri
    scmRepositories,    \* scmService.repositories, by provider.rootUri
    scmSelected,        \* ScmRepository.selected of each of scmService.repositories
    onDidChangeCommandEmitterMap,     \* the keys of the map of that name
    onDidChangeRepositoryEmitterMap,  \* the keys of the map of that name
    statusBar,          \* the ids of the elements of the status bar
    gitFired,           \* what the last listener fired: the command fired on a
                        \* command emitter, or "change", with the key of the emitter
    applicationState,   \* applicationStateService.state
    pending,            \* ViewRegistry.pending: how its first promise stands
    widgets,            \* the ViewsContainerWidgets created, in order of creation
    containersWidgets,  \* ViewRegistry.containersWidgets: id to index in widgets
    steps,              \* how many of the chained then-callbacks have run
    shell,              \* the widgets of the application shell with their areas
    activated,          \* the ids given to applicationShell.activateWidget
    treeCalls           \* the callbacks of onRegisterTreeView

vars == <<hideIgnoredFiles, isOpen, currentLookFor, locations, invs,
          cmpArgs, cmpStack, cmpOutcome,
          sortInput, sortLookFor, sortOutput, sortState,
          netInput, netCalled, netIsIPv4, netIsIPv6, netIsIP,
          gitStarted, allRepositories, dirtyRepositories, scmRepositories,
          scmSelected, onDidChangeCommandEmitterMap, onDidChangeRepositoryEmitterMap,
          statusBar, gitFired,
          applicationState, pending, widgets, containersWidgets, steps, shell,
          activated, treeCalls>>

serviceVars == <<hideIgnoredFiles, isOpen, currentLookFor, locations, invs>>
cmpVars == <<cmpArgs, cmpStack, cmpOutcome>>
sortVars == <<sortInput, sortLookFor, sortOutput, sortState>>
netVars == <<netInput, netCalled, netIsIPv4, netIsIPv6, netIsIP>>
gitVars == <<gitStarted, allRepositories, dirtyRepositories, scmRepositories,
             scmSelected, onDidChangeCommandEmitterMap, onDidChangeRepositoryEmitterMap,
             statusBar, gitFired>>
viewVars == <<applicationState, pending, widgets, containersWidgets, steps, shell,
              activated, treeCalls>>

RECURSIVE Reverse(_)
Reverse(s) ==
    IF s = <<>> THEN <<>> ELSE Append(Reverse(Tail(s)), Head(s))

\* the first index k >= from of seq whose element is in keep; 0 when there is none
FirstFrom(seq, from, keep) ==
    LET hits == {k \in from..Len(seq) : seq[k] \in keep}
    IN  IF hits = {} THEN 0 ELSE CHOOSE k \in hits : \A m \in hits : k <= m

\* An onType invocation: its parameters, its locals, its cancellation token,
\* the await it is suspended at (pc), and what it did to its collaborators.
NewInvocation(lookFor) ==
    [ query      |-> lookFor,              \* lookFor
      sorted     |-> <<>>,                 \* sortedResults
      cancelled  |-> FALSE,                \* token.isCancellationRequested
      pc         |-> "start",
      locs       |-> Reverse(locations),   \* locations
      idx        |-> 0,                    \* position of the loop that is awaiting
      recent     |-> <<>>,                 \* recentlyUsedItems
      collected  |-> {},                   \* alreadyCollected
      results    |-> <<>>,                 \* value of the promise returned by find
      found      |-> <<>>,                 \* fileSearchResultItems
      first      |-> 0,                    \* first.getUri()
      sortQuery  |-> <<>>,                 \* currentLookFor as the sort read it
      error      |-> "none",               \* what the handler threw or find rejected with
      promise    |-> "pending",            \* the promise onType returned to its caller
      finds      |-> 0,                    \* calls of fileSearchService.find
      accepted   |-> 0,                    \* calls of the acceptor
      out        |-> <<>>,                 \* the list passed to the acceptor
      cancelledAtAccept |-> FALSE,         \* the token's flag when the acceptor was called
      typedBeforeResolve |-> FALSE,        \* an onType was invoked before find resolved
      rootedBeforeResolve |-> FALSE,       \* ... and it passed the roots check
      useGitIgnore |-> TRUE,               \* the option of that name of the pending find
      hideAtCall |-> hideIgnoredFiles ]    \* hideIgnoredFiles when onType was called,
                                           \* kept until the search is settled

\* the invocation returns or throws: its locals are gone
Return(r, pc) ==
    [r EXCEPT !.pc = pc, !.idx = 0, !.collected = {}, !.found = <<>>,
              !.sorted = <<>>, !.first = 0,
              !.useGitIgnore = TRUE, !.hideAtCall = TRUE]

\* mutant of HistoryGroup: every recently used item opens a group
HistoryGroupAlways(recentlyUsedItems) == "recently opened"

\* line 157: the group of the next recently used item
HistoryGroup(recentlyUsedItems) ==
    IF Len(recentlyUsedItems) = 0 THEN "recently opened" ELSE NoGroup

\* mutant of DeliveredList: the search results first
DeliveredListSwapped(recentlyUsedItems, sortedResults) ==
    sortedResults \o recentlyUsedItems

\* line 182: the recently used items, followed by the search results
DeliveredList(recentlyUsedItems, sortedResults) == recentlyUsedItems \o sortedResults

\* acceptor(list), the last statement of its path
Accept(r, list) ==
    Return([r EXCEPT !.accepted = @ + 1, !.out = list,
                     !.cancelledAtAccept = r.cancelled], "done")

\* mutant of AfterHistory: the search is started for the empty query too
AfterHistoryAlwaysSearch(r) ==
    [r EXCEPT !.pc = "searching", !.finds = @ + 1, !.promise = "fulfilled"]

\* mutant of AfterHistory: the recently used items are delivered at once, the
\* search results in a second call of the acceptor
AfterHistoryDeliverEarly(r) ==
    IF Len(r.query) > 0
    THEN [r EXCEPT !.pc = "searching", !.finds = @ + 1, !.promise = "fulfilled",
                   !.accepted = @ + 1, !.out = r.recent,
                   !.cancelledAtAccept = r.cancelled]
    ELSE Accept([r EXCEPT !.promise = "fulfilled"], r.recent)

\* mutant of AfterHistory: the search gets the flag as it was when onType was
\* called
AfterHistoryFlagAtCall(r) ==
    IF Len(r.query) > 0
    THEN [r EXCEPT !.pc = "searching", !.finds = @ + 1, !.promise = "fulfilled",
                   !.useGitIgnore = r.hideAtCall]
    ELSE Accept([r EXCEPT !.promise = "fulfilled"], r.recent)

\* lines 161-193: after the history pass, start the search or deliver
AfterHistory(r) ==
    IF Len(r.query) > 0
    THEN [r EXCEPT !.pc = "searching", !.finds = @ + 1, !.promise = "fulfilled",
                   !.useGitIgnore = hideIgnoredFiles]
    ELSE Accept([r EXCEPT !.promise = "fulfilled"], r.recent)

\* mutant of HistoryLoop: the fuzzy test of the location is left out
HistoryLoopNoFilter(r, from) ==
    LET keep == {u \in Uris : u \notin r.collected}
        j == FirstFrom(r.locs, from, keep)
    IN  IF j # 0 THEN [r EXCEPT !.pc = "history", !.idx = j]
        ELSE AfterHistory(r)

\* lines 154-160: the history loop from position from to its next await
HistoryLoop(r, from) ==
    LET keep == {u \in Uris : u \notin r.collected /\ FuzzyTest(r.query, UriString(u))}
        j == FirstFrom(r.locs, from, keep)
    IN  IF j # 0 THEN [r EXCEPT !.pc = "history", !.idx = j]
        ELSE AfterHistory(r)

\* lines 172-179: sort a copy, take the first element out and start rebuilding it
SortAndRegroup(r) ==
    IF SortThrows(r.found, currentLookFor)
    THEN Return([r EXCEPT !.error = "RangeError"], "threw")
    ELSE LET sortedResults == SortItems(r.found, currentLookFor)
         IN  IF sortedResults = <<>>
             THEN Return([r EXCEPT !.error = "TypeError"], "threw")
             ELSE [r EXCEPT !.pc = "regroup",
                            !.first = sortedResults[1].uri,
                            !.sorted = Tail(sortedResults),
                            !.sortQuery = currentLookFor]

\* mutant of ResultsLoop: results are not checked against alreadyCollected
ResultsLoopNoDedup(r, from) ==
    IF from <= Len(r.results) THEN [r EXCEPT !.pc = "results", !.idx = from]
    ELSE SortAndRegroup(r)

\* lines 165-170: the results loop from position from to its next await
ResultsLoop(r, from) ==
    LET keep == {u \in Uris : u \notin r.collected}
        j == FirstFrom(r.results, from, keep)
    IN  IF j # 0 THEN [r EXCEPT !.pc = "results", !.idx = j]
        ELSE SortAndRegroup(r)

\* mutant of CancelCurrent: the previous token is left alone
CancelNothing(seq) == seq

\* this.cancelIndicator.cancel(): the indicator is the latest invocation's
CancelCurrent(seq) ==
    IF seq = <<>> THEN seq ELSE [seq EXCEPT ![Len(seq)].cancelled = TRUE]

\* bookkeeping: an onType call arrived while these searches were unresolved
RECURSIVE NoteTyped(_, _)
NoteTyped(seq, rooted) ==
    IF seq = <<>> THEN <<>>
    ELSE <<IF Head(seq).pc \in {"history", "searching"}
           THEN [Head(seq) EXCEPT !.typedBeforeResolve = TRUE,
                                  !.rootedBeforeResolve = @ \/ rooted]
           ELSE Head(seq)>> \o NoteTyped(Tail(seq), rooted)

Init ==
    /\ hideIgnoredFiles = TRUE
    /\ isOpen = FALSE
    /\ currentLookFor = <<>>
    /\ locations \in Histories
    /\ invs = <<>>
    /\ cmpArgs = [lookFor |-> <<>>, a |-> toItem(1, NoGroup), b |-> toItem(1, NoGroup)]
    /\ cmpStack = <<>>
    /\ cmpOutcome = "idle"
    /\ sortInput = <<>>
    /\ sortLookFor = <<>>
    /\ sortOutput = <<>>
    /\ sortState = "idle"
    /\ netInput = <<>>
    /\ netCalled = {}
    /\ netIsIPv4 = FALSE
    /\ netIsIPv6 = FALSE
    /\ netIsIP = 0
    /\ gitStarted = FALSE
    /\ allRepositories = <<>>
    /\ dirtyRepositories = <<>>
    /\ scmRepositories = <<>>
    /\ scmSelected = <<>>
    /\ onDidChangeCommandEmitterMap = {}
    /\ onDidChangeRepositoryEmitterMap = {}
    /\ statusBar = {}
    /\ gitFired = {}
    /\ applicationState = "init"
    /\ pending = "none"
    /\ widgets = <<>>
    /\ containersWidgets = [id \in ContainerIds |-> 0]
    /\ steps = 0
    /\ shell = <<>>
    /\ activated = {}
    /\ treeCalls = <<>>

(***************************************************************************)
(* Operations of QuickFileOpenService                                      *)
(***************************************************************************)
\* mutant of OnType: the new token source is created before cancel() is called
OnTypeCancelAfterCreate(lookFor, hasRoots) ==
    /\ IF ~hasRoots
       THEN /\ invs' = NoteTyped(invs, FALSE)
            /\ UNCHANGED currentLookFor
       ELSE /\ Len(invs) < MaxCalls
            /\ currentLookFor' = lookFor
            /\ invs' = Append(NoteTyped(invs, TRUE),
                              HistoryLoop([NewInvocation(lookFor) EXCEPT !.cancelled = TRUE], 1))
    /\ UNCHANGED <<hideIgnoredFiles, isOpen, locations, cmpVars, sortVars, netVars, gitVars, viewVars>>

\* mutant of OnType: the previous token is cancelled before the roots check
OnTypeCancelBeforeRoots(lookFor, hasRoots) ==
    /\ IF ~hasRoots
       THEN /\ invs' = CancelCurrent(NoteTyped(invs, FALSE))
            /\ UNCHANGED currentLookFor
       ELSE /\ Len(invs) < MaxCalls
            /\ currentLookFor' = lookFor
            /\ invs' = Append(CancelCurrent(NoteTyped(invs, TRUE)),
                              HistoryLoop(NewInvocation(lookFor), 1))
    /\ UNCHANGED <<hideIgnoredFiles, isOpen, locations, cmpVars, sortVars, netVars, gitVars, viewVars>>

\* onType(lookFor, acceptor), up to its first await; hasRoots tells whether
\* workspaceService.tryGetRoots() returned a root
OnType(lookFor, hasRoots) ==
    /\ IF ~hasRoots
       THEN /\ invs' = NoteTyped(invs, FALSE)
            /\ UNCHANGED currentLookFor
       ELSE /\ Len(invs) < MaxCalls
            /\ currentLookFor' = lookFor
            /\ invs' = Append(CancelCurrent(NoteTyped(invs, TRUE)),
                              HistoryLoop(NewInvocation(lookFor), 1))
    /\ UNCHANGED <<hideIgnoredFiles, isOpen, locations, cmpVars, sortVars, netVars, gitVars, viewVars>>

\* onType resumed after `await this.toItem(location.uri, ...)` of the history loop
HistoryResume(i) ==
    /\ invs[i].pc = "history"
    /\ LET r == invs[i]
           u == r.locs[r.idx]
           pushed == [r EXCEPT !.recent = Append(@, toItem(u, HistoryGroup(r.recent))),
                               !.collected = @ \cup {u}]
       IN  invs' = [invs EXCEPT ![i] = HistoryLoop(pushed, r.idx + 1)]
    /\ UNCHANGED <<hideIgnoredFiles, isOpen, currentLookFor, locations, cmpVars, sortVars, netVars, gitVars, viewVars>>

\* the promise returned by fileSearchService.find is fulfilled with results
FindResolve(i, results) ==
    /\ invs[i].pc = "searching"
    /\ invs' = [invs EXCEPT ![i] = [@ EXCEPT !.pc = "resolved", !.results = results,
                                              !.useGitIgnore = TRUE, !.hideAtCall = TRUE]]
    /\ UNCHANGED <<hideIgnoredFiles, isOpen, currentLookFor, locations, cmpVars, sortVars, netVars, gitVars, viewVars>>

\* mutant of FindReject: the search is issued again after a rejection
FindRejectRetry(i) ==
    /\ invs[i].pc = "searching"
    /\ invs' = [invs EXCEPT ![i] = [@ EXCEPT !.error = "find rejected", !.finds = @ + 1]]
    /\ UNCHANGED <<hideIgnoredFiles, isOpen, currentLookFor, locations, cmpVars, sortVars, netVars, gitVars, viewVars>>

\* the promise returned by fileSearchService.find is rejected: handler is not
\* run, and the promise that then(handler) returned, which nothing holds, is
\* rejected in its turn
FindReject(i) ==
    /\ invs[i].pc = "searching"
    /\ invs' = [invs EXCEPT ![i] = [@ EXCEPT !.pc = "unhandled", !.error = "find rejected",
                                              !.useGitIgnore = TRUE, !.hideAtCall = TRUE]]
    /\ UNCHANGED <<hideIgnoredFiles, isOpen, currentLookFor, locations, cmpVars, sortVars, netVars, gitVars, viewVars>>

\* handler(results), up to its first await
Handler(i) ==
    /\ invs[i].pc = "resolved"
    /\ invs' = [invs EXCEPT ![i] =
                   IF invs[i].cancelled THEN Return(@, "done")
                   ELSE ResultsLoop(@, 1)]
    /\ UNCHANGED <<hideIgnoredFiles, isOpen, currentLookFor, locations, cmpVars, sortVars, netVars, gitVars, viewVars>>

\* handler resumed after `await this.toItem(fileUri)` of the results loop
ResultsResume(i) ==
    /\ invs[i].pc = "results"
    /\ LET r == invs[i]
           u == r.results[r.idx]
           pushed == [r EXCEPT !.found = Append(@, toItem(u, NoGroup)),
                               !.collected = @ \cup {u}]
       IN  invs' = [invs EXCEPT ![i] = ResultsLoop(pushed, r.idx + 1)]
    /\ UNCHANGED <<hideIgnoredFiles, isOpen, currentLookFor, locations, cmpVars, sortVars, netVars, gitVars, viewVars>>

\* handler resumed after `await this.toItem(first.getUri()!, 'file results')`
RegroupResume(i) ==
    /\ invs[i].pc = "regroup"
    /\ LET r == invs[i]
           sortedResults == <<toItem(r.first, "file results")>> \o r.sorted
       IN  invs' = [invs EXCEPT ![i] =
                       Accept([r EXCEPT !.sorted = sortedResults],
                              DeliveredList(r.recent, sortedResults))]
    /\ UNCHANGED <<hideIgnoredFiles, isOpen, currentLookFor, locations, cmpVars, sortVars, netVars, gitVars, viewVars>>

\* mutant of OnClose: the cancellation indicator is left alone
OnCloseKeepsToken ==
    /\ isOpen' = FALSE
    /\ invs' = invs
    /\ UNCHANGED <<hideIgnoredFiles, currentLookFor, locations, cmpVars, sortVars, netVars, gitVars, viewVars>>

\* getOptions().onClose
OnClose ==
    /\ isOpen' = FALSE
    /\ invs' = CancelCurrent(invs)
    /\ UNCHANGED <<hideIgnoredFiles, currentLookFor, locations, cmpVars, sortVars, netVars, gitVars, viewVars>>

\* open()
Open ==
    /\ IF isOpen
       THEN /\ hideIgnoredFiles' = ~hideIgnoredFiles
            /\ UNCHANGED <<currentLookFor, isOpen>>
       ELSE /\ hideIgnoredFiles' = TRUE
            /\ currentLookFor' = <<>>
            /\ isOpen' = TRUE
    /\ UNCHANGED <<locations, invs, cmpVars, sortVars, netVars, gitVars, viewVars>>

Next ==
    \/ \E lookFor \in Queries : \E hasRoots \in BOOLEAN : OnType(lookFor, hasRoots)
    \/ \E i \in 1..Len(invs) : HistoryResume(i)
    \/ \E i \in 1..Len(invs) : \E results \in ResultLists : FindResolve(i, results)
    \/ \E i \in 1..Len(invs) : FindReject(i)
    \/ \E i \in 1..Len(invs) : Handler(i)
    \/ \E i \in 1..Len(invs) : ResultsResume(i)
    \/ \E i \in 1..Len(invs) : RegroupResume(i)
    \/ OnClose
    \/ Open

Spec == Init /\ [][Next]_vars

(***************************************************************************)
(* compareItems traced activation by activation                            *)
(***************************************************************************)
\* this.compareItems(a, b) is called by the sort
CompareCall(a, b, lookFor) ==
    /\ cmpStack = <<>>
    /\ cmpArgs' = [lookFor |-> lookFor, a |-> a, b |-> b]
    /\ cmpStack' = <<"getLabel">>
    /\ cmpOutcome' = "running"
    /\ UNCHANGED <<serviceVars, sortVars, netVars, gitVars, viewVars>>

\* the innermost activation runs to its return or to its recursive call
CompareStep ==
    /\ cmpStack # <<>>
    /\ LET pass == ComparePass(cmpArgs.a, cmpArgs.b, cmpArgs.lookFor,
                               cmpStack[Len(cmpStack)])
       IN  IF ~pass.recurse
           THEN cmpStack' = <<>> /\ cmpOutcome' = "returned"
           ELSE IF Len(cmpStack) < MaxStack
                THEN cmpStack' = Append(cmpStack, "getUri") /\ cmpOutcome' = cmpOutcome
                ELSE cmpStack' = <<>> /\ cmpOutcome' = "RangeError"
    /\ UNCHANGED <<cmpArgs, serviceVars, sortVars, netVars, gitVars, viewVars>>

NextCompare ==
    \/ \E a, b \in Uris : \E lookFor \in Queries :
          CompareCall(toItem(a, NoGroup), toItem(b, NoGroup), lookFor)
    \/ CompareStep

SpecCompare == Init /\ [][NextCompare]_vars

(***************************************************************************)
(* The sort of line 174 applied to every array of four items               *)
(***************************************************************************)
InitSort ==
    /\ hideIgnoredFiles = TRUE
    /\ isOpen = FALSE
    /\ currentLookFor = <<>>
    /\ locations = <<>>
    /\ invs = <<>>
    /\ cmpArgs = [lookFor |-> <<>>, a |-> toItem(1, NoGroup), b |-> toItem(1, NoGroup)]
    /\ cmpStack = <<>>
    /\ cmpOutcome = "idle"
    /\ sortInput \in {<<toItem(a, NoGroup), toItem(b, NoGroup),
                           toItem(c, NoGroup), toItem(d, NoGroup)>> :
                          a \in Uris, b \in Uris, c \in Uris, d \in Uris}
    /\ sortLookFor \in CompareQueries
    /\ sortOutput = <<>>
    /\ sortState = "input"
    /\ netInput = <<>>
    /\ netCalled = {}
    /\ netIsIPv4 = FALSE
    /\ netIsIPv6 = FALSE
    /\ netIsIP = 0
    /\ gitStarted = FALSE
    /\ allRepositories = <<>>
    /\ dirtyRepositories = <<>>
    /\ scmRepositories = <<>>
    /\ scmSelected = <<>>
    /\ onDidChangeCommandEmitterMap = {}
    /\ onDidChangeRepositoryEmitterMap = {}
    /\ statusBar = {}
    /\ gitFired = {}
    /\ applicationState = "init"
    /\ pending = "none"
    /\ widgets = <<>>
    /\ containersWidgets = [id \in ContainerIds |-> 0]
    /\ steps = 0
    /\ shell = <<>>
    /\ activated = {}
    /\ treeCalls = <<>>

\* sortedResults.sort((a, b) => this.compareItems(a, b))
SortCall ==
    /\ sortState = "input"
    /\ IF SortThrows(sortInput, sortLookFor)
       THEN sortOutput' = <<>> /\ sortState' = "threw"
       ELSE sortOutput' = SortItems(sortInput, sortLookFor) /\ sortState' = "sorted"
    /\ UNCHANGED <<sortInput, sortLookFor, serviceVars, cmpVars, netVars, gitVars, viewVars>>

NextSort == SortCall

SpecSort == InitSort /\ [][NextSort]_vars

(***************************************************************************)
(* Namespace net (packages/core/src/common/net.ts)                         *)
(*                                                                         *)
(* A regular expression is a tree: <<"cls", S>> matches one character of   *)
(* the set S, <<"seq", rs>> the expressions of rs one after the other,     *)
(* <<"alt", rs>> one of them, <<"rep", r, lo, hi>> between lo and hi       *)
(* repetitions of r (hi = -1: any number).                                  *)
(***************************************************************************)
Cls(chars) == <<"cls", chars>>
Chr(c) == <<"cls", {c}>>
Cat(rs) == <<"seq", rs>>
OneOf(rs) == <<"alt", rs>>
Rep(r, lo, hi) == <<"rep", r, lo, hi>>
Opt(r) == <<"rep", r, 0, 1>>

\* the offsets at which a match of re that starts at offset i of s can end
RECURSIVE Ends(_, _, _)
RECURSIVE EndsSeq(_, _, _)
RECURSIVE EndsRep(_, _, _, _, _)
Ends(re, s, i) ==
    IF re[1] = "cls"
    THEN IF i < Len(s) /\ s[i + 1] \in re[2] THEN {i + 1} ELSE {}
    ELSE IF re[1] = "seq" THEN EndsSeq(re[2], s, {i})
    ELSE IF re[1] = "alt" THEN UNION {Ends(re[2][k], s, i) : k \in 1..Len(re[2])}
    ELSE EndsRep(re[2], s, {i}, re[3], re[4])

EndsSeq(rs, s, from) ==
    IF rs = <<>> THEN from
    ELSE EndsSeq(Tail(rs), s, UNION {Ends(Head(rs), s, i) : i \in from})

EndsRep(r, s, from, lo, hi) ==
    IF hi = 0 \/ from = {} THEN (IF lo = 0 THEN from ELSE {})
    ELSE (IF lo = 0 THEN from ELSE {})
         \cup EndsRep(r, s, UNION {Ends(r, s, i) : i \in from},
                      IF lo = 0 THEN 0 ELSE lo - 1, hi - 1)

\* new RegExp('^' + re + '$').test(s)
RegExpTest(re, s) == Len(s) \in Ends(re, s, 0)

Digits == {"0", "1", "2", "3", "4", "5", "6", "7", "8", "9"}
HexDigits == Digits \cup {"a", "b", "c", "d", "e", "f", "A", "B", "C", "D", "E", "F"}
Alphanumerics == Digits \cup {"a", "b", "c", "d", "e", "f", "g", "h", "i", "j", "k", "l", "m", "n", "o", "p", "q", "r", "s", "t", "u", "v", "w", "x", "y", "z"} \cup {"A", "B", "C", "D", "E", "F", "G", "H", "I", "J", "K", "L", "M", "N", "O", "P", "Q", "R", "S", "T", "U", "V", "W", "X", "Y", "Z"}

\* mutant of v4Seg: two-digit segments may start with 0
v4SegLeadingZero ==
    OneOf(<< Cls(Digits),
           Cat(<<Cls(Digits), Cls(Digits)>>),
           Cat(<<Chr("1"), Cls(Digits), Cls(Digits)>>),
           Cat(<<Chr("2"), Cls({"0", "1", "2", "3", "4"}), Cls(Digits)>>),
           Cat(<<Chr("2"), Chr("5"), Cls({"0", "1", "2", "3", "4", "5"})>>) >>)

\* '(?:[0-9]|[1-9][0-9]|1[0-9][0-9]|2[0-4][0-9]|25[0-5])'
v4Seg ==
    OneOf(<< Cls(Digits),
           Cat(<<Cls(Digits \ {"0"}), Cls(Digits)>>),
           Cat(<<Chr("1"), Cls(Digits), Cls(Digits)>>),
           Cat(<<Chr("2"), Cls({"0", "1", "2", "3", "4"}), Cls(Digits)>>),
           Cat(<<Chr("2"), Chr("5"), Cls({"0", "1", "2", "3", "4", "5"})>>) >>)

\* `(${v4Seg}[.]){3}${v4Seg}`
v4Str == Cat(<<Rep(Cat(<<v4Seg, Chr(".")>>), 3, 3), v4Seg>>)

IPv4Reg == v4Str

\* '(?:[0-9a-fA-F]{1,4})'
v6Seg == Rep(Cls(HexDigits), 1, 4)

\* `(?:${v6Seg}:){n}`
v6Lead(n) == Rep(Cat(<<v6Seg, Chr(":")>>), n, n)

\* `(:${v6Seg}){lo,hi}`
v6Trail(lo, hi) == Rep(Cat(<<Chr(":"), v6Seg>>), lo, hi)

\* `:${v4Str}`
v6Mapped == Cat(<<Chr(":"), v4Str>>)

IPv6Reg ==
    Cat(<< OneOf(<<
        Cat(<<v6Lead(7), OneOf(<<v6Seg, Chr(":")>>)>>),
        Cat(<<v6Lead(6), OneOf(<<v4Str, v6Trail(1, 1), Chr(":")>>)>>),
        Cat(<<v6Lead(5), OneOf(<<v6Mapped, v6Trail(1, 2), Chr(":")>>)>>),
        Cat(<<v6Lead(4), OneOf(<<Cat(<<v6Trail(0, 1), v6Mapped>>), v6Trail(1, 3), Chr(":")>>)>>),
        Cat(<<v6Lead(3), OneOf(<<Cat(<<v6Trail(0, 2), v6Mapped>>), v6Trail(1, 4), Chr(":")>>)>>),
        Cat(<<v6Lead(2), OneOf(<<Cat(<<v6Trail(0, 3), v6Mapped>>), v6Trail(1, 5), Chr(":")>>)>>),
        Cat(<<v6Lead(1), OneOf(<<Cat(<<v6Trail(0, 4), v6Mapped>>), v6Trail(1, 6), Chr(":")>>)>>),
        Cat(<<Chr(":"), OneOf(<<Cat(<<v6Trail(0, 5), v6Mapped>>), v6Trail(1, 7), Chr(":")>>)>>) >>),
        Opt(Cat(<<Chr("%"), Rep(Cls(Alphanumerics), 1, -1)>>)) >>)

isIPv4(s) == RegExpTest(IPv4Reg, s)

isIPv6(s) == RegExpTest(IPv6Reg, s)

\* mutant of isIP: the version 6 test is left out
isIPWithoutV6(s) ==
    IF isIPv4(s) THEN 4
    ELSE 0

isIP(s) ==
    IF isIPv4(s) THEN 4
    ELSE IF isIPv6(s) THEN 6
    ELSE 0

\* the strings the functions are applied to: dotted strings whose segments
\* are taken from SegmentsFew, with one segment taken from SegmentsAll
SegmentsFew == {
    <<"0">>, <<"1", "0">>, <<"2", "5", "5">>, <<"2", "5", "6">> }

SegmentsAll == {
    <<>>, <<"0">>, <<"0", "0">>, <<"0", "1">>, <<"7">>,
    <<"1", "0">>, <<"4", "2">>, <<"0", "9", "9">>, <<"1", "9", "9">>, <<"2", "0", "0">>,
    <<"2", "4", "9">>, <<"2", "5", "0">>, <<"2", "5", "5">>, <<"2", "5", "6">>, <<"2", "6", "0">>,
    <<"3", "0", "0">>, <<"1", "0", "0", "0">>, <<"1", "a">>, <<"-", "1">> }

Dotted(a, b, c, d) == a \o <<".">> \o b \o <<".">> \o c \o <<".">> \o d

DottedInputs ==
    {Dotted(a, b, c, d) : a \in SegmentsAll, b \in SegmentsFew,
                          c \in SegmentsFew, d \in SegmentsFew}
    \cup {Dotted(a, b, c, d) : a \in SegmentsFew, b \in SegmentsAll,
                               c \in SegmentsFew, d \in SegmentsFew}
    \cup {Dotted(a, b, c, d) : a \in SegmentsFew, b \in SegmentsFew,
                               c \in SegmentsAll, d \in SegmentsFew}
    \cup {Dotted(a, b, c, d) : a \in SegmentsFew, b \in SegmentsFew,
                               c \in SegmentsFew, d \in SegmentsAll}

FewDotted == {Dotted(a, b, c, d) : a, b, c, d \in SegmentsFew}

\* three and five segments, and characters around four segments
MisshapenInputs ==
    {a \o <<".">> \o b \o <<".">> \o c : a, b, c \in SegmentsFew}
    \cup {s \o <<".">> \o a : s \in FewDotted, a \in SegmentsFew}
    \cup {s \o t : s \in FewDotted, t \in {<<" ">>, <<".">>, <<":">>, <<"%", "e">>}}
    \cup {<<" ">> \o s : s \in FewDotted}

\* strings with colons
ColonInputs == {
    <<>>, <<":", ":">>, <<":", ":", "1">>, <<"1", ":", ":">>,
    <<"1", ":", ":", "8">>, <<"1", ":", "2", ":", "3", ":", "4", ":", "5", ":", "6", ":", "7", ":", "8">>, <<"1", ":", "2", ":", "3", ":", "4", ":", "5", ":", "6", ":", "7">>, <<"1", ":", "2", ":", "3", ":", "4", ":", "5", ":", "6", ":", "7", ":", "8", ":", "9">>,
    <<"1", ":", "2", ":", "3", ":", "4", ":", "5", ":", "6", ":", "7", ":", ":">>, <<":", ":", "2", ":", "3", ":", "4", ":", "5", ":", "6", ":", "7", ":", "8">>, <<"1", ":", ":", "3", ":", "4", ":", "5", ":", "6", ":", "7", ":", "8">>, <<"f", "e", "8", "0", ":", ":", "1", "%", "e", "0">>,
    <<"f", "e", "8", "0", ":", ":", "1", "%">>, <<":", ":", "1", "%", " ">>, <<"1", "2", "3", "4", "5", ":", ":">>, <<"g", ":", ":">>,
    <<":", ":", ":">>, <<"1", ":", ":", ":", "8">>, <<"a", "B", "c", "D", ":", ":", "E", "f", "0", "9">>, <<":", ":", "%", "0">>,
    <<":">>, <<"1", ":", "2">>, <<"F", "F", "F", "F", ":">>, <<":", ":", "1", ":", ":">> }

\* a dotted string behind a prefix with colons
MappedInputs ==
    {pre \o s : pre \in {
                <<":", ":">>, <<":", ":", "f", "f", "f", "f", ":">>, <<"1", ":", "2", ":", "3", ":", "4", ":", "5", ":", "6", ":">>,
                <<"1", ":", "2", ":", "3", ":", "4", ":", "5", ":", "6", ":", "7", ":">>, <<"1", ":", ":">>, <<":", ":", "1", ".">> },
                s \in FewDotted}

NetInputs == DottedInputs \cup MisshapenInputs \cup ColonInputs \cup MappedInputs

InitNet ==
    /\ hideIgnoredFiles = TRUE
    /\ isOpen = FALSE
    /\ currentLookFor = <<>>
    /\ locations = <<>>
    /\ invs = <<>>
    /\ cmpArgs = [lookFor |-> <<>>, a |-> toItem(1, NoGroup), b |-> toItem(1, NoGroup)]
    /\ cmpStack = <<>>
    /\ cmpOutcome = "idle"
    /\ sortInput = <<>>
    /\ sortLookFor = <<>>
    /\ sortOutput = <<>>
    /\ sortState = "idle"
    /\ netInput \in NetInputs
    /\ netCalled = {}
    /\ netIsIPv4 = FALSE
    /\ netIsIPv6 = FALSE
    /\ netIsIP = 0
    /\ gitStarted = FALSE
    /\ allRepositories = <<>>
    /\ dirtyRepositories = <<>>
    /\ scmRepositories = <<>>
    /\ scmSelected = <<>>
    /\ onDidChangeCommandEmitterMap = {}
    /\ onDidChangeRepositoryEmitterMap = {}
    /\ statusBar = {}
    /\ gitFired = {}
    /\ applicationState = "init"
    /\ pending = "none"
    /\ widgets = <<>>
    /\ containersWidgets = [id \in ContainerIds |-> 0]
    /\ steps = 0
    /\ shell = <<>>
    /\ activated = {}
    /\ treeCalls = <<>>

\* net.isIPv4(s)
IsIPv4Call ==
    /\ "isIPv4" \notin netCalled
    /\ netCalled' = netCalled \cup {"isIPv4"}
    /\ netIsIPv4' = isIPv4(netInput)
    /\ UNCHANGED <<netInput, netIsIPv6, netIsIP, serviceVars, cmpVars, sortVars, gitVars, viewVars>>

\* net.isIPv6(s)
IsIPv6Call ==
    /\ "isIPv6" \notin netCalled
    /\ netCalled' = netCalled \cup {"isIPv6"}
    /\ netIsIPv6' = isIPv6(netInput)
    /\ UNCHANGED <<netInput, netIsIPv4, netIsIP, serviceVars, cmpVars, sortVars, gitVars, viewVars>>

\* net.isIP(s)
IsIPCall ==
    /\ "isIP" \notin netCalled
    /\ netCalled' = netCalled \cup {"isIP"}
    /\ netIsIP' = isIP(netInput)
    /\ UNCHANGED <<netInput, netIsIPv4, netIsIPv6, serviceVars, cmpVars, sortVars, gitVars, viewVars>>

NextNet ==
    \/ IsIPv4Call
    \/ IsIPv6Call
    \/ IsIPCall

SpecNet == InitNet /\ [][NextNet]_vars

(***************************************************************************)
(* The repositories of GitViewContribution                                 *)
(* (packages/git/src/browser/git-view-contribution.ts).                    *)
(*                                                                         *)
(* A repository is its localUri; an SCM repository is the rootUri of its   *)
(* provider.  scmService.repositories holds the SCM repositories that      *)
(* registerScmProvider returned and that were not disposed since.          *)
(***************************************************************************)
Repositories == {"/r1", "/r2"}

\* the values of repositoryProvider.allRepositories: no localUri twice
RepositoryLists ==
    {<<>>} \cup {<<a>> : a \in Repositories}
           \cup {list \in {<<a, b>> : a \in Repositories, b \in Repositories} :
                   list[1] # list[2]}

LocalUris(list) == {list[k] : k \in 1..Len(list)}

\* array.find(x => keep(x)): the first element of list that is in keep, as a
\* sequence of one element, or <<>> for undefined
Find(list, keep) ==
    LET k == FirstFrom(list, 1, keep)
    IN  IF k = 0 THEN <<>> ELSE <<list[k]>>

\* scmService.registerScmProvider({..., rootUri: uri}) of line 288
registerScmProvider(repos, uri) == Append(repos, uri)

\* removedScmRepo.dispose() for the first SCM repository whose provider has
\* rootUri uri, if there is one
DisposeScmRepository(repos, uri) ==
    LET k == FirstFrom(repos, 1, {uri})
    IN  IF k = 0 THEN repos
        ELSE SubSeq(repos, 1, k - 1) \o SubSeq(repos, k + 1, Len(repos))

RECURSIVE RegisterAll(_, _)
RegisterAll(repos, list) ==
    IF list = <<>> THEN repos
    ELSE RegisterAll(registerScmProvider(repos, Head(list)), Tail(list))

\* checkNewOrRemovedRepositories(), lines 254-269: scmService.repositories
\* after it
checkNewOrRemovedRepositories(repos, all, dirty) ==
    LET added == Find(all, Repositories \ LocalUris(dirty))
        afterAdded == IF added # <<>> THEN registerScmProvider(repos, added[1])
                      ELSE repos
        removed == Find(dirty, Repositories \ LocalUris(all))
    IN  IF removed # <<>> THEN DisposeScmRepository(afterAdded, removed[1])
        ELSE afterAdded

InitGit ==
    /\ hideIgnoredFiles = TRUE
    /\ isOpen = FALSE
    /\ currentLookFor = <<>>
    /\ locations = <<>>
    /\ invs = <<>>
    /\ cmpArgs = [lookFor |-> <<>>, a |-> toItem(1, NoGroup), b |-> toItem(1, NoGroup)]
    /\ cmpStack = <<>>
    /\ cmpOutcome = "idle"
    /\ sortInput = <<>>
    /\ sortLookFor = <<>>
    /\ sortOutput = <<>>
    /\ sortState = "idle"
    /\ netInput = <<>>
    /\ netCalled = {}
    /\ netIsIPv4 = FALSE
    /\ netIsIPv6 = FALSE
    /\ netIsIP = 0
    /\ gitStarted = FALSE
    /\ allRepositories \in RepositoryLists
    /\ dirtyRepositories = <<>>
    /\ scmRepositories = <<>>
    /\ scmSelected = <<>>
    /\ onDidChangeCommandEmitterMap = {}
    /\ onDidChangeRepositoryEmitterMap = {}
    /\ statusBar = {}
    /\ gitFired = {}
    /\ applicationState = "init"
    /\ pending = "none"
    /\ widgets = <<>>
    /\ containersWidgets = [id \in ContainerIds |-> 0]
    /\ steps = 0
    /\ shell = <<>>
    /\ activated = {}
    /\ treeCalls = <<>>

GIT_SELECTED_REPOSITORY == "git-selected-repository"
GIT_REPOSITORY_STATUS == "git-repository-status"
GIT_SYNC_STATUS == "git-sync-status"

StatusBarElements == {GIT_SELECTED_REPOSITORY, GIT_REPOSITORY_STATUS, GIT_SYNC_STATUS}

\* no repository: undefined
NoRepository == "undefined"

\* the repository checkNewOrRemovedRepositories takes as added (lines 254-257)
\* and the one it takes as removed (lines 261-263), as Find gives them
AddedRepository == Find(allRepositories, Repositories \ LocalUris(dirtyRepositories))
RemovedRepository == Find(dirtyRepositories, Repositories \ LocalUris(allRepositories))

\* the index in scmService.repositories, as they are after the registration
\* of line 259, of the SCM repository line 265 finds; 0 when it finds none
RemovedScmRepo ==
    IF RemovedRepository = <<>> THEN 0
    ELSE FirstFrom(scmRepositories \o AddedRepository, 1, {RemovedRepository[1]})

\* the keys of either emitter map after checkNewOrRemovedRepositories():
\* registerScmProvider sets the key uri (lines 279-280), the dispose of the
\* provider deletes it (lines 285-286)
KeysAfterCheck(keys) ==
    (keys \cup LocalUris(AddedRepository))
        \ (IF RemovedScmRepo # 0 THEN {RemovedRepository[1]} ELSE {})

\* the selected flags after checkNewOrRemovedRepositories(): a new SCM
\* repository is not selected
SelectedAfterCheck ==
    LET afterAdded == scmSelected \o [n \in 1..Len(AddedRepository) |-> FALSE]
        k == RemovedScmRepo
    IN  IF k = 0 THEN afterAdded
        ELSE SubSeq(afterAdded, 1, k - 1) \o SubSeq(afterAdded, k + 1, Len(afterAdded))

\* hasMultipleRepositories()
hasMultipleRepositories == Len(allRepositories) > 1

\* updateSyncStatusBarEntry(repositoryUri), lines 570-583: the emitters it
\* fires, with hasEntry telling whether getStatusBarEntry() returned an entry
SyncFires(repositoryUri, hasEntry, keys) ==
    IF hasEntry /\ repositoryUri # NoRepository /\ repositoryUri \in keys
    THEN {<<"vcs-sync-status", repositoryUri>>}
    ELSE {}

\* updateSyncStatusBarEntry(repositoryUri): the status bar after it
SyncStatusBar(repositoryUri, hasEntry) ==
    IF hasEntry /\ repositoryUri # NoRepository
    THEN statusBar
    ELSE statusBar \ {GIT_SYNC_STATUS}

\* onStart(), lines 180-181
OnStart ==
    /\ ~gitStarted
    /\ gitStarted' = TRUE
    /\ scmRepositories' = RegisterAll(scmRepositories, allRepositories)
    /\ scmSelected' = scmSelected \o [n \in 1..Len(allRepositories) |-> FALSE]
    /\ onDidChangeCommandEmitterMap' =
          onDidChangeCommandEmitterMap \cup LocalUris(allRepositories)
    /\ onDidChangeRepositoryEmitterMap' =
          onDidChangeRepositoryEmitterMap \cup LocalUris(allRepositories)
    /\ dirtyRepositories' = allRepositories
    /\ UNCHANGED <<allRepositories, statusBar, gitFired,
                   serviceVars, cmpVars, sortVars, netVars, viewVars>>

\* the repository provider finds repositories or loses some
RepositoriesChange(list) ==
    /\ list # allRepositories
    /\ allRepositories' = list
    /\ UNCHANGED <<gitStarted, dirtyRepositories, scmRepositories, scmSelected,
                   onDidChangeCommandEmitterMap, onDidChangeRepositoryEmitterMap,
                   statusBar, gitFired,
                   serviceVars, cmpVars, sortVars, netVars, viewVars>>

\* the listener of repositoryTracker.onGitEvent, lines 209-243, for an event
\* with event.source.localUri = source
OnGitEventFrom(source, hasEntry) ==
    /\ gitStarted
    /\ Len(scmRepositories) < MaxScmRepositories
    /\ scmRepositories' = checkNewOrRemovedRepositories(scmRepositories,
                                                        allRepositories, dirtyRepositories)
    /\ scmSelected' = SelectedAfterCheck
    /\ onDidChangeCommandEmitterMap' = KeysAfterCheck(onDidChangeCommandEmitterMap)
    /\ onDidChangeRepositoryEmitterMap' = KeysAfterCheck(onDidChangeRepositoryEmitterMap)
    /\ dirtyRepositories' = allRepositories
    /\ gitFired' =
          (IF source \in onDidChangeCommandEmitterMap'
           THEN {<<"CHECKOUT", source>>} ELSE {})
          \cup (IF source \in onDidChangeRepositoryEmitterMap'
                THEN {<<"change", source>>} ELSE {})
          \cup SyncFires(source, hasEntry, onDidChangeCommandEmitterMap')
    /\ statusBar' = SyncStatusBar(source, hasEntry)
    /\ UNCHANGED <<gitStarted, allRepositories, serviceVars, cmpVars, sortVars, netVars, viewVars>>

\* the listener of repositoryTracker.onGitEvent for any event
OnGitEvent ==
    \E source \in Repositories : \E hasEntry \in BOOLEAN : OnGitEventFrom(source, hasEntry)

\* the listener of syncService.onDidChange, lines 245-249, with selected the
\* localUri of repositoryProvider.selectedRepository
OnSyncChange(selected, hasEntry) ==
    /\ gitStarted
    /\ gitFired' = SyncFires(selected, hasEntry, onDidChangeCommandEmitterMap)
    /\ statusBar' = SyncStatusBar(selected, hasEntry)
    /\ UNCHANGED <<gitStarted, allRepositories, dirtyRepositories, scmRepositories,
                   scmSelected, onDidChangeCommandEmitterMap,
                   onDidChangeRepositoryEmitterMap,
                   serviceVars, cmpVars, sortVars, netVars, viewVars>>

\* mutant of OnDidChangeRepository: the repositories selected before stay
\* selected
OnDidChangeRepositoryKeepsOthers(repository) ==
    /\ gitStarted
    /\ IF repository # NoRepository
       THEN IF hasMultipleRepositories
            THEN /\ scmSelected' =
                       [n \in 1..Len(scmSelected) |->
                          scmSelected[n] \/ n = FirstFrom(scmRepositories, 1, {repository})]
                 /\ gitFired' = IF repository \in onDidChangeCommandEmitterMap
                                THEN {<<"CHANGE_REPOSITORY", repository>>} ELSE {}
                 /\ UNCHANGED statusBar
            ELSE /\ statusBar' = statusBar \ {GIT_SELECTED_REPOSITORY}
                 /\ gitFired' = {}
                 /\ UNCHANGED scmSelected
       ELSE /\ statusBar' = statusBar \ StatusBarElements
            /\ gitFired' = {}
            /\ UNCHANGED scmSelected
    /\ UNCHANGED <<gitStarted, allRepositories, dirtyRepositories, scmRepositories,
                   onDidChangeCommandEmitterMap, onDidChangeRepositoryEmitterMap,
                   serviceVars, cmpVars, sortVars, netVars, viewVars>>

\* the listener of repositoryTracker.onDidChangeRepository, lines 182-208
OnDidChangeRepository(repository) ==
    /\ gitStarted
    /\ IF repository # NoRepository
       THEN IF hasMultipleRepositories
            THEN /\ scmSelected' =
                       [n \in 1..Len(scmSelected) |->
                          n = FirstFrom(scmRepositories, 1, {repository})]
                 /\ gitFired' = IF repository \in onDidChangeCommandEmitterMap
                                THEN {<<"CHANGE_REPOSITORY", repository>>} ELSE {}
                 /\ UNCHANGED statusBar
            ELSE /\ statusBar' = statusBar \ {GIT_SELECTED_REPOSITORY}
                 /\ gitFired' = {}
                 /\ UNCHANGED scmSelected
       ELSE /\ statusBar' = statusBar \ StatusBarElements
            /\ gitFired' = {}
            /\ UNCHANGED scmSelected
    /\ UNCHANGED <<gitStarted, allRepositories, dirtyRepositories, scmRepositories,
                   onDidChangeCommandEmitterMap, onDidChangeRepositoryEmitterMap,
                   serviceVars, cmpVars, sortVars, netVars, viewVars>>

\* the SCM view selects or deselects an SCM repository
SetSelected(n, selected) ==
    /\ n \in 1..Len(scmSelected)
    /\ scmSelected[n] # selected
    /\ scmSelected' = [scmSelected EXCEPT ![n] = selected]
    /\ UNCHANGED <<gitStarted, allRepositories, dirtyRepositories, scmRepositories,
                   onDidChangeCommandEmitterMap, onDidChangeRepositoryEmitterMap,
                   statusBar, gitFired,
                   serviceVars, cmpVars, sortVars, netVars, viewVars>>

\* something else puts an element into the status bar
SetElement(id) ==
    /\ id \notin statusBar
    /\ statusBar' = statusBar \cup {id}
    /\ UNCHANGED <<gitStarted, allRepositories, dirtyRepositories, scmRepositories,
                   scmSelected, onDidChangeCommandEmitterMap,
                   onDidChangeRepositoryEmitterMap, gitFired,
                   serviceVars, cmpVars, sortVars, netVars, viewVars>>

NextGit ==
    \/ OnStart
    \/ \E list \in RepositoryLists : RepositoriesChange(list)
    \/ OnGitEvent
    \/ \E selected \in Repositories \cup {NoRepository} : \E hasEntry \in BOOLEAN :
          OnSyncChange(selected, hasEntry)
    \/ \E repository \in Repositories \cup {NoRepository} :
          OnDidChangeRepository(repository)
    \/ \E n \in 1..MaxScmRepositories : \E selected \in BOOLEAN : SetSelected(n, selected)
    \/ \E id \in StatusBarElements : SetElement(id)

SpecGit == InitGit /\ [][NextGit]_vars

(***************************************************************************)
(* ViewRegistry (src/unnamed/part_000).                                    *)
(*                                                                         *)
(* this.pending is a chain: a first promise, made by pendingReady(), and   *)
(* one then-callback per registerViewContainer call, the k-th of which     *)
(* adds the k-th widget created.  The callbacks of a chain run in order,   *)
(* each in a turn of its own, once the first promise is fulfilled.         *)
(* pending tells how the first promise stands: "none" (this.pending is     *)
(* undefined), "waiting", "ready" (fulfilled at line 75) or "fired"        *)
(* (fulfilled at line 80).                                                 *)
(***************************************************************************)
READY == "ready"

\* the states of the application, in the order the application takes them
ApplicationStates == <<"init", READY, "closing_window">>

Locations == {"right", "main"}
ViewIds == {"v1", "v2"}
TreeViewWidgets == {"t1"}

\* ApplicationShell.isSideArea(location)
isSideArea(location) == location \in {"left", "right", "bottom"}

\* new ViewsContainerWidget(viewContainer), with the location its then-callback holds
NewWidget(location, id) ==
    [id |-> id, location |-> location, views |-> {}, trees |-> {}]

\* mutant of pendingReady: the promise is fulfilled whatever the state is
pendingReadyAtOnce == "ready"

\* pendingReady(), lines 74-83, when it returns
pendingReady == IF applicationState = READY THEN "ready" ELSE "waiting"

Fulfilled == pending \in {"ready", "fired"}

\* this.applicationShell.getTabBarFor(widget) is defined
getTabBarFor(k) == \E n \in 1..Len(shell) : shell[n].widget = k

\* mutant of AddStep: the widget goes to the requested area, whatever it is
AddStepRequestedArea(k) ==
    IF ~getTabBarFor(k)
    THEN Append(shell, [widget |-> k, area |-> widgets[k].location])
    ELSE shell

\* the then-callback of lines 47-53 for the k-th widget: the shell after it
AddStep(k) ==
    IF ~getTabBarFor(k)
    THEN Append(shell, [widget |-> k,
                        area |-> IF isSideArea(widgets[k].location)
                                 THEN widgets[k].location ELSE "left"])
    ELSE shell

\* the callbacks one onRegisterTreeView call starts, one per entry of
\* containersWidgets, each waiting for this.pending as it is at the call
RECURSIVE TreeCallsFor(_, _, _)
TreeCallsFor(ids, viewId, tree) ==
    IF ids = {} THEN <<>>
    ELSE LET id == CHOOSE x \in ids : TRUE
         IN  <<[widget |-> containersWidgets[id], viewId |-> viewId, tree |-> tree,
                waitFor |-> Len(widgets), ran |-> FALSE]>>
             \o TreeCallsFor(ids \ {id}, viewId, tree)

InitView ==
    /\ hideIgnoredFiles = TRUE
    /\ isOpen = FALSE
    /\ currentLookFor = <<>>
    /\ locations = <<>>
    /\ invs = <<>>
    /\ cmpArgs = [lookFor |-> <<>>, a |-> toItem(1, NoGroup), b |-> toItem(1, NoGroup)]
    /\ cmpStack = <<>>
    /\ cmpOutcome = "idle"
    /\ sortInput = <<>>
    /\ sortLookFor = <<>>
    /\ sortOutput = <<>>
    /\ sortState = "idle"
    /\ netInput = <<>>
    /\ netCalled = {}
    /\ netIsIPv4 = FALSE
    /\ netIsIPv6 = FALSE
    /\ netIsIP = 0
    /\ gitStarted = FALSE
    /\ allRepositories = <<>>
    /\ dirtyRepositories = <<>>
    /\ scmRepositories = <<>>
    /\ scmSelected = <<>>
    /\ onDidChangeCommandEmitterMap = {}
    /\ onDidChangeRepositoryEmitterMap = {}
    /\ statusBar = {}
    /\ gitFired = {}
    /\ applicationState = ApplicationStates[1]
    /\ pending = "none"
    /\ widgets = <<>>
    /\ containersWidgets = [id \in ContainerIds |-> 0]
    /\ steps = 0
    /\ shell = <<>>
    /\ activated = {}
    /\ treeCalls = <<>>

\* the application moves to its next state and the state service fires
\* onStateChanged: the listener of lines 78-82 fulfils the first promise
StateChanged ==
    /\ \E n \in 1..(Len(ApplicationStates) - 1) :
          /\ applicationState = ApplicationStates[n]
          /\ applicationState' = ApplicationStates[n + 1]
    /\ pending' = IF pending = "waiting" /\ applicationState' = READY
                  THEN "fired" ELSE pending
    /\ UNCHANGED <<widgets, containersWidgets, steps, shell, activated, treeCalls,
                   serviceVars, cmpVars, sortVars, netVars, gitVars>>

\* registerViewContainer(location, viewContainer), viewContainer.id = id
RegisterViewContainer(location, id) ==
    /\ Len(widgets) < MaxContainers
    /\ widgets' = Append(widgets, NewWidget(location, id))
    /\ containersWidgets' = [containersWidgets EXCEPT ![id] = Len(widgets) + 1]
    /\ pending' = IF pending = "none" THEN pendingReady ELSE pending
    /\ UNCHANGED <<applicationState, steps, shell, activated, treeCalls,
                   serviceVars, cmpVars, sortVars, netVars, gitVars>>

\* the next then-callback of the chain runs
ChainStep ==
    /\ Fulfilled
    /\ steps < Len(widgets)
    /\ shell' = AddStep(steps + 1)
    /\ steps' = steps + 1
    /\ UNCHANGED <<applicationState, pending, widgets, containersWidgets, activated,
                   treeCalls, serviceVars, cmpVars, sortVars, netVars, gitVars>>

\* registerView(location, view), view.id = viewId
RegisterView(location, viewId) ==
    /\ containersWidgets[location] # 0
    /\ viewId \notin widgets[containersWidgets[location]].views
    /\ widgets' = [widgets EXCEPT ![containersWidgets[location]].views = @ \cup {viewId}]
    /\ UNCHANGED <<applicationState, pending, containersWidgets, steps, shell, activated,
                   treeCalls, serviceVars, cmpVars, sortVars, netVars, gitVars>>

\* onRegisterTreeView(viewId, treeViewWidget), up to the await of each callback
OnRegisterTreeView(viewId, tree) ==
    /\ treeCalls' = treeCalls \o
           TreeCallsFor({id \in ContainerIds : containersWidgets[id] # 0}, viewId, tree)
    /\ treeCalls' # treeCalls
    /\ Len(treeCalls') <= MaxTreeCalls
    /\ UNCHANGED <<applicationState, pending, widgets, containersWidgets, steps, shell,
                   activated, serviceVars, cmpVars, sortVars, netVars, gitVars>>

\* mutant of TreeViewResume: the callback does not wait for this.pending
TreeViewResumeAtOnce(j) ==
    /\ j \in 1..Len(treeCalls)
    /\ ~treeCalls[j].ran
    /\ treeCalls' = [treeCalls EXCEPT ![j].ran = TRUE]
    /\ LET k == treeCalls[j].widget
       IN  IF treeCalls[j].viewId \in widgets[k].views
           THEN /\ widgets' = [widgets EXCEPT ![k].trees =
                                  @ \cup {<<treeCalls[j].viewId, treeCalls[j].tree>>}]
                /\ activated' = activated \cup {widgets[k].id}
           ELSE UNCHANGED <<widgets, activated>>
    /\ UNCHANGED <<applicationState, pending, containersWidgets, steps, shell,
                   serviceVars, cmpVars, sortVars, netVars, gitVars>>

\* a callback of onRegisterTreeView resumed after `await this.pending`
TreeViewResume(j) ==
    /\ j \in 1..Len(treeCalls)
    /\ ~treeCalls[j].ran
    /\ Fulfilled
    /\ steps >= treeCalls[j].waitFor
    /\ treeCalls' = [treeCalls EXCEPT ![j].ran = TRUE]
    /\ LET k == treeCalls[j].widget
       IN  IF treeCalls[j].viewId \in widgets[k].views
           THEN /\ widgets' = [widgets EXCEPT ![k].trees =
                                  @ \cup {<<treeCalls[j].viewId, treeCalls[j].tree>>}]
                /\ activated' = activated \cup {widgets[k].id}
           ELSE UNCHANGED <<widgets, activated>>
    /\ UNCHANGED <<applicationState, pending, containersWidgets, steps, shell,
                   serviceVars, cmpVars, sortVars, netVars, gitVars>>

NextView ==
    \/ StateChanged
    \/ \E location \in Locations : \E id \in ContainerIds :
          RegisterViewContainer(location, id)
    \/ ChainStep
    \/ \E id \in ContainerIds : \E viewId \in ViewIds : RegisterView(id, viewId)
    \/ \E viewId \in ViewIds : \E tree \in TreeViewWidgets :
          OnRegisterTreeView(viewId, tree)
    \/ \E j \in 1..MaxTreeCalls : TreeViewResume(j)

SpecView == InitView /\ [][NextView]_vars

(***************************************************************************)
(* Properties                                                              *)
(***************************************************************************)
Invocations == {invs[i] : i \in 1..Len(invs)}

\* the invocations whose acceptor has been called
Delivered == {r \in Invocations : r.accepted > 0}

RECURSIVE UrisOf(_)
UrisOf(items) ==
    IF items = <<>> THEN <<>> ELSE <<Head(items).uri>> \o UrisOf(Tail(items))

RECURSIVE FirstOccurrences(_, _)
FirstOccurrences(seq, seen) ==
    IF seq = <<>> THEN <<>>
    ELSE IF Head(seq) \in seen THEN FirstOccurrences(Tail(seq), seen)
    ELSE <<Head(seq)>> \o FirstOccurrences(Tail(seq), seen \cup {Head(seq)})

FuzzyMatches(q, u) == FuzzyTest(q, UriString(u))

\* the history scanned from the most recent entry to the oldest, restricted to
\* the identifiers that fuzzy-match q, each at its first occurrence
ExpectedPrefix(q, history) ==
    LET matches(u) == FuzzyMatches(q, u)
    IN  FirstOccurrences(SelectSeq(Reverse(history), matches), {})

SeqRange(seq) == {seq[k] : k \in 1..Len(seq)}

\* the search results that the history pass has not collected
NovelResults(r) == SeqRange(r.results) \ SeqRange(ExpectedPrefix(r.query, locations))

\* the part of a delivered list behind the history prefix
SearchSegment(r) ==
    SubSeq(r.out, Len(ExpectedPrefix(r.query, locations)) + 1, Len(r.out))

HasDuplicates(seq) == \E j, k \in 1..Len(seq) : j # k /\ seq[j] = seq[k]

\* C1 (as amended): when an onType call that passes the roots check is invoked
\* before the file-search promise of an earlier onType has resolved, the
\* acceptor of the earlier call is never invoked.
C1_SupersededSearchNeverDelivers ==
    \A r \in Invocations :
        (Len(r.query) > 0 /\ r.rootedBeforeResolve) => r.accepted = 0

\* C1 witness: a superseded search resolved with results, its handler ran, and
\* nothing was delivered
C1_Witness ==
    \E r \in Invocations :
        /\ Len(r.query) > 0 /\ r.rootedBeforeResolve
        /\ r.pc = "done" /\ r.results # <<>> /\ r.accepted = 0

\* C1 (as stated): when any onType call is invoked before the file-search
\* promise of an earlier onType has resolved, the acceptor of the earlier call
\* is never invoked.
C1_AnyLaterTypeSuppresses ==
    \A r \in Invocations :
        (Len(r.query) > 0 /\ r.typedBeforeResolve) => r.accepted = 0

\* C2: the acceptor of an invocation is called only while the invocation's
\* cancellation token is un-cancelled.
C2_AcceptorOnlyWhileUncancelled ==
    \A r \in Delivered : ~r.cancelledAtAccept

\* C3: no identifier appears twice in a list passed to the acceptor.
C3_NoDuplicateIdentifier ==
    \A r \in Delivered : ~HasDuplicates(UrisOf(r.out))

\* C3 witness: a delivered list built from a history with a repeated entry and
\* from results that repeat an identifier and share one with the history prefix
C3_Witness ==
    \E r \in Delivered :
        /\ HasDuplicates(r.locs)
        /\ HasDuplicates(r.results)
        /\ SeqRange(r.results) \cap SeqRange(UrisOf(r.recent)) # {}
        /\ Len(r.out) > Len(r.recent)

\* C4: in a delivered list the first item of a non-empty history segment, and
\* no other history item, carries 'recently opened'; the first item of a
\* non-empty search segment, and no other search item, carries 'file results'.
C4_GroupLabels ==
    \A r \in Delivered :
        LET n == Len(ExpectedPrefix(r.query, locations))
        IN  \A k \in 1..Len(r.out) :
                r.out[k].group =
                    IF k <= n
                    THEN (IF k = 1 THEN "recently opened" ELSE NoGroup)
                    ELSE (IF k = n + 1 THEN "file results" ELSE NoGroup)

\* C4 witness: a delivered list with two or more items in each segment
C4_Witness ==
    \E r \in Delivered :
        /\ Len(r.recent) >= 2
        /\ Len(r.out) >= Len(r.recent) + 2

\* C5: when the handler of a non-empty query runs (token un-cancelled) on
\* results that hold no identifier outside the history prefix, the acceptor is
\* called with exactly the history prefix.
C5_NoNovelResultDeliversPrefix ==
    \A r \in Invocations :
        ( /\ Len(r.query) > 0
          /\ NovelResults(r) = {}
          /\ \/ r.pc = "threw"
             \/ r.pc = "done" /\ r.accepted > 0 )
        => /\ r.accepted = 1
           /\ UrisOf(r.out) = ExpectedPrefix(r.query, locations)
           /\ \A k \in 1..Len(r.out) : r.out[k].group # "file results"

\* C6: an invocation with the empty query never calls find, and what it
\* delivers is exactly the history prefix.
C6_EmptyQueryHistoryOnly ==
    \A r \in Invocations :
        Len(r.query) = 0 =>
            /\ r.finds = 0
            /\ r.pc \in {"history", "done"}
            /\ r.pc = "done" =>
                  /\ r.accepted = 1
                  /\ UrisOf(r.out) = ExpectedPrefix(r.query, locations)

\* C6 witness: an empty-query invocation has delivered a history of several items
C6_Witness ==
    \E r \in Delivered : Len(r.query) = 0 /\ Len(r.out) >= 2

\* C7: the history-derived items of a delivered list are the first
\* occurrences, from the most recent entry to the oldest, of the identifiers
\* that fuzzy-match the query, in that order.
C7_HistoryPrefixOrder ==
    \A r \in Delivered :
        LET prefix == ExpectedPrefix(r.query, locations)
        IN  /\ Len(r.out) >= Len(prefix)
            /\ UrisOf(SubSeq(r.out, 1, Len(prefix))) = prefix
            /\ UrisOf(r.recent) = prefix

\* C7 witness: a delivered list for a non-empty query whose history holds a
\* repeated entry and an entry the query filters out, with two items kept
C7_Witness ==
    \E r \in Delivered :
        /\ Len(r.query) > 0
        /\ HasDuplicates(r.locs)
        /\ \E u \in SeqRange(r.locs) : ~FuzzyMatches(r.query, u)
        /\ Len(r.recent) >= 2
        /\ Len(r.out) > Len(r.recent)

\* C8: a list delivered for a non-empty query is the list of the history pass
\* followed by the search segment: no search-derived item stands before a
\* history-derived one.
C8_PrefixThenSearchSegment ==
    \A r \in Delivered :
        Len(r.query) > 0 =>
            /\ Len(r.out) >= Len(r.recent)
            /\ SubSeq(r.out, 1, Len(r.recent)) = r.recent
            /\ \A j, k \in 1..Len(r.out) :
                  ( /\ r.out[j].uri \in SeqRange(r.locs)
                    /\ FuzzyMatches(r.query, r.out[j].uri)
                    /\ ~( /\ r.out[k].uri \in SeqRange(r.locs)
                          /\ FuzzyMatches(r.query, r.out[k].uri) ) )
                  => j < k

\* C8 witness: a delivered list with both segments non-empty
C8_Witness ==
    \E r \in Delivered :
        /\ Len(r.query) > 0
        /\ Len(r.recent) >= 1
        /\ Len(r.out) > Len(r.recent)

\* C9: the search segment of a delivered list is ordered by compareItems (with
\* the query the sort read) and holds exactly the search results that the
\* history pass had not collected, each once.
C9_SearchSegmentSorted ==
    \A r \in Delivered :
        Len(r.query) > 0 =>
            LET seg == SearchSegment(r)
            IN  /\ \A j, k \in 1..Len(seg) :
                      j < k => /\ ~CompareDiverges(seg[j], seg[k], r.sortQuery)
                               /\ compareItems(seg[j], seg[k], r.sortQuery) <= 0
                /\ SeqRange(UrisOf(seg)) = NovelResults(r)
                /\ ~HasDuplicates(UrisOf(seg))

\* C9 witness: a delivered search segment whose order differs from the order
\* in which the results arrived
C9_Witness ==
    \E r \in Delivered :
        /\ Len(SearchSegment(r)) >= 2
        /\ UrisOf(SearchSegment(r)) # FirstOccurrences(
               SelectSeq(r.results, LAMBDA u : u \in NovelResults(r)), {})

\* C10: a compareItems call terminates with at most one fallback recursion:
\* never more than two activations, and no stack exhaustion.
C10_AtMostOneFallback ==
    /\ Len(cmpStack) <= 2
    /\ cmpOutcome # "RangeError"

\* the items of the traced sort, taken in all orders
SortPositions == 1..Len(sortInput)

\* C11: for a fixed query compareItems is a consistent ordering: every call
\* returns a number, the sign of compareItems(a, b) is the opposite of the sign
\* of compareItems(b, a), and the relation "a sorts no later than b" is
\* transitive.
C11_ConsistentOrdering ==
    \A i, j, k \in SortPositions :
        LET a == sortInput[i]
            b == sortInput[j]
            c == sortInput[k]
        IN  /\ ~CompareDiverges(a, b, sortLookFor)
            /\ cmp(compareItems(a, b, sortLookFor), 0)
                  = - cmp(compareItems(b, a, sortLookFor), 0)
            /\ ( /\ compareItems(a, b, sortLookFor) <= 0
                 /\ compareItems(b, c, sortLookFor) <= 0 )
               => compareItems(a, c, sortLookFor) <= 0

\* C12: when the promise of find rejects, the promise that onType returned to
\* its caller rejects with that error, and the acceptor is not called.
C12_FindRejectionReachesCaller ==
    \A r \in Invocations :
        r.error = "find rejected" => r.promise = "rejected" /\ r.accepted = 0

\* C13: an invocation calls its acceptor at most once, as its last step, and
\* with the complete list: the whole history prefix and, for a non-empty
\* query, every search result the history pass had not collected.
C13_AcceptorOnceWithCompleteList ==
    \A r \in Invocations :
        /\ r.accepted <= 1
        /\ r.accepted = 1 =>
              /\ r.pc = "done"
              /\ SeqRange(UrisOf(r.out)) =
                    SeqRange(ExpectedPrefix(r.query, locations))
                    \cup (IF Len(r.query) > 0 THEN NovelResults(r) ELSE {})

\* C13 witness: an invocation whose results loop awaited several times has
\* delivered, once, a list with search results behind the history prefix
C13_Witness ==
    \E r \in Invocations :
        /\ r.accepted = 1 /\ r.pc = "done"
        /\ Len(r.results) >= 3
        /\ Len(r.recent) >= 1
        /\ Len(r.out) > Len(r.recent)

\* C14: at most one token issued by onType is un-cancelled, and it is the token
\* of the most recent onType call that passed the roots check; an onType call
\* that issues a token has cancelled all earlier ones and issues its own
\* un-cancelled; right after onClose no issued token is un-cancelled.
C14_OneLiveToken ==
    /\ [](\A i \in 1..(Len(invs) - 1) : invs[i].cancelled)
    /\ [][Len(invs') > Len(invs) =>
             /\ \A i \in 1..Len(invs) : invs'[i].cancelled
             /\ ~invs'[Len(invs')].cancelled]_vars
    /\ [][OnClose => \A i \in 1..Len(invs') : invs'[i].cancelled]_vars

\* C14 witness: a second onType call has cancelled the token of a first one
\* whose search is still running, and holds the only un-cancelled token
C14_Witness ==
    /\ Len(invs) = 2
    /\ invs[1].cancelled /\ invs[1].pc \in {"history", "searching", "results"}
    /\ ~invs[2].cancelled /\ invs[2].pc \in {"history", "searching", "results"}

\* C15: the comparator normalises the query as it normalises the keys (trim,
\* lower-case, strip), so a query with blanks around it ranks every pair of
\* items as the trimmed query does.
C15_QueryNormalizedAsKeys ==
    /\ NormalizeQuery(sortLookFor) = NormalizeKey(sortLookFor)
    /\ \A i, j \in SortPositions :
          LET a == sortInput[i]
              b == sortInput[j]
          IN  ( /\ ~CompareDiverges(a, b, sortLookFor)
                /\ ~CompareDiverges(a, b, Trim(sortLookFor)) )
              => compareItems(a, b, sortLookFor)
                    = compareItems(a, b, Trim(sortLookFor))

\* the normalised label of an item, and the offset of the normalised query in
\* it (-1 when it does not occur)
LabelKey(item) == NormalizeKey(MemberString(item, "getLabel"))
LabelOffset(item) == IndexOf(LabelKey(item), NormalizeQuery(sortLookFor))

\* C16: when the normalised query occurs in both label keys at different
\* offsets, the item with the smaller offset is ordered first; matching items
\* whose offsets differ pairwise leave the sort in ascending order of offset,
\* whatever their order in the input.
C16_SmallerOffsetFirst ==
    /\ \A i, j \in SortPositions :
          LET a == sortInput[i]
              b == sortInput[j]
          IN  ( /\ LabelOffset(a) # -1 /\ LabelOffset(b) # -1
                /\ LabelOffset(a) < LabelOffset(b) )
              => /\ ~CompareDiverges(a, b, sortLookFor)
                 /\ ~CompareDiverges(b, a, sortLookFor)
                 /\ compareItems(a, b, sortLookFor) < 0
                 /\ compareItems(b, a, sortLookFor) > 0
    /\ sortState = "sorted" =>
          \A i, j \in 1..Len(sortOutput) :
              ( /\ LabelOffset(sortOutput[i]) # -1 /\ LabelOffset(sortOutput[j]) # -1
                /\ LabelOffset(sortOutput[i]) < LabelOffset(sortOutput[j]) )
              => i < j

\* C16 witness: three items matching at pairwise different offsets, given in
\* descending order of offset, have been sorted
C16_Witness ==
    /\ sortState = "sorted"
    /\ Len(sortLookFor) > 0
    /\ LabelOffset(sortInput[4]) = -1
    /\ LabelOffset(sortInput[3]) = 0
    /\ LabelOffset(sortInput[2]) > LabelOffset(sortInput[3])
    /\ LabelOffset(sortInput[1]) > LabelOffset(sortInput[2])

\* a and b hold the normalised query in their label keys at the same offset
SameOffset(a, b) == LabelOffset(a) # -1 /\ LabelOffset(a) = LabelOffset(b)

\* C17: when both label keys hold the query at the same offset, the item with
\* the shorter key is ordered first; at equal lengths the item whose key
\* collates first; and the path is the comparison key only if the label keys
\* are equal.
C17_ShorterThenLexicographicThenPath ==
    \A i, j \in SortPositions :
        LET a  == sortInput[i]
            b  == sortInput[j]
            ka == LabelKey(a)
            kb == LabelKey(b)
            byLabel == /\ ~ComparePass(a, b, sortLookFor, "getLabel").recurse
                       /\ ~CompareDiverges(a, b, sortLookFor)
        IN  /\ ComparePass(a, b, sortLookFor, "getLabel").recurse
                 => SameOffset(a, b) /\ ka = kb
            /\ SameOffset(a, b) =>
                  /\ Len(ka) < Len(kb) =>
                        byLabel /\ compareItems(a, b, sortLookFor) < 0
                  /\ Len(ka) > Len(kb) =>
                        byLabel /\ compareItems(a, b, sortLookFor) > 0
                  /\ (Len(ka) = Len(kb) /\ LocaleCompare(ka, kb) < 0) =>
                        byLabel /\ compareItems(a, b, sortLookFor) < 0
                  /\ (Len(ka) = Len(kb) /\ LocaleCompare(ka, kb) > 0) =>
                        byLabel /\ compareItems(a, b, sortLookFor) > 0
                  /\ ka = kb =>
                        /\ ComparePass(a, b, sortLookFor, "getLabel").recurse
                        /\ ~CompareDiverges(a, b, sortLookFor) =>
                              compareItems(a, b, sortLookFor)
                                = ComparePass(a, b, sortLookFor, "getUri").value

\* C17 witness: a sorted array with two items of equal label keys told apart
\* by their paths, a longer key, and a key of that length collating after it,
\* all at the same offset, given in the reverse of their order
C17_Witness ==
    /\ sortState = "sorted"
    /\ Len(sortLookFor) > 0
    /\ \A i, j \in SortPositions : SameOffset(sortInput[i], sortInput[j])
    /\ LabelKey(sortInput[4]) = LabelKey(sortInput[3])
    /\ compareItems(sortInput[4], sortInput[3], sortLookFor) < 0
    /\ Len(LabelKey(sortInput[3])) < Len(LabelKey(sortInput[2]))
    /\ Len(LabelKey(sortInput[2])) = Len(LabelKey(sortInput[1]))
    /\ LocaleCompare(LabelKey(sortInput[2]), LabelKey(sortInput[1])) < 0
    /\ sortOutput = Reverse(sortInput)

\* C18: when the normalised query occurs in exactly one of the two label keys,
\* the matching item is ordered before the other, in both argument orders,
\* and so stands before it after the sort.
C18_MatchingBeforeNonMatching ==
    /\ \A i, j \in SortPositions :
          LET a == sortInput[i]
              b == sortInput[j]
          IN  (LabelOffset(a) # -1 /\ LabelOffset(b) = -1)
              => /\ ~CompareDiverges(a, b, sortLookFor)
                 /\ ~CompareDiverges(b, a, sortLookFor)
                 /\ compareItems(a, b, sortLookFor) < 0
                 /\ compareItems(b, a, sortLookFor) > 0
    /\ sortState = "sorted" =>
          \A i, j \in 1..Len(sortOutput) :
              (LabelOffset(sortOutput[i]) # -1 /\ LabelOffset(sortOutput[j]) = -1)
              => i < j

\* C18 witness: an array that starts with two items that do not match and ends
\* with two that do has been sorted
C18_Witness ==
    /\ sortState = "sorted"
    /\ LabelOffset(sortInput[1]) = -1 /\ LabelOffset(sortInput[2]) = -1
    /\ LabelKey(sortInput[1]) # LabelKey(sortInput[2])
    /\ LabelOffset(sortInput[3]) # -1 /\ LabelOffset(sortInput[4]) # -1
    /\ LabelOffset(sortOutput[1]) # -1 /\ LabelOffset(sortOutput[2]) # -1

\* C19: when the normalised query occurs in neither label key, compareItems
\* returns 0, and the sort leaves the items that do not match in the order
\* they had in the input.
C19_NeitherMatchesKeepsOrder ==
    /\ \A i, j \in SortPositions :
          LET a == sortInput[i]
              b == sortInput[j]
          IN  (LabelOffset(a) = -1 /\ LabelOffset(b) = -1)
              => /\ ~CompareDiverges(a, b, sortLookFor)
                 /\ compareItems(a, b, sortLookFor) = 0
    /\ sortState = "sorted" =>
          LET unmatched(item) == LabelOffset(item) = -1
          IN  SelectSeq(sortOutput, unmatched) = SelectSeq(sortInput, unmatched)

\* C19 witness: a sorted array whose items that do not match were given in the
\* reverse of their collating order, around an item that matches
C19_Witness ==
    /\ sortState = "sorted"
    /\ LabelOffset(sortInput[1]) = -1
    /\ LabelOffset(sortInput[2]) # -1
    /\ LabelOffset(sortInput[3]) = -1
    /\ LabelOffset(sortInput[4]) = -1
    /\ LocaleCompare(LabelKey(sortInput[1]), LabelKey(sortInput[3])) > 0
    /\ LocaleCompare(LabelKey(sortInput[3]), LabelKey(sortInput[4])) > 0
    /\ sortOutput = <<sortInput[2], sortInput[1], sortInput[3], sortInput[4]>>

\* C20: two onType calls made one after the other (the first delivered before
\* the second was invoked, neither cancelled before it delivered) with the
\* same query, the same history and the same search results deliver identical
\* lists: the same identifiers, in the same order, with the same group labels.
C20_SameInputsSameList ==
    \A i, j \in 1..Len(invs) :
        ( /\ i < j
          /\ invs[i].accepted = 1 /\ ~invs[i].cancelledAtAccept
          /\ invs[j].accepted = 1 /\ ~invs[j].cancelledAtAccept
          /\ invs[i].query = invs[j].query
          /\ invs[i].locs = invs[j].locs
          /\ invs[i].results = invs[j].results )
        => invs[i].out = invs[j].out

\* C21: an onType invocation calls fileSearchService.find at most once; the
\* search is not issued again after a rejection nor after an empty result.
C21_FindAtMostOnce ==
    \A r \in Invocations :
        /\ r.finds <= 1
        /\ r.finds = 1 => Len(r.query) > 0 /\ r.pc # "history"

\* C21 witness: one invocation whose find was rejected and one whose find
\* resolved with no result have both ended, each after a single find
C21_Witness ==
    /\ \E r \in Invocations :
          r.pc = "unhandled" /\ r.error = "find rejected" /\ r.finds = 1
    /\ \E r \in Invocations :
          r.pc = "threw" /\ r.results = <<>> /\ r.finds = 1

\* C22: the search segment of a delivered list never holds more than limit
\* items, whatever the number of identifiers the file search resolved with.
C22_SegmentWithinLimit ==
    \A r \in Delivered : Len(SearchSegment(r)) <= Limit

\* the pieces of s between the occurrences of the character sep
RECURSIVE Split(_, _)
Split(s, sep) ==
    LET hits == {k \in 1..Len(s) : s[k] = sep}
    IN  IF hits = {} THEN <<s>>
        ELSE LET k == CHOOSE k \in hits : \A m \in hits : k <= m
             IN  <<SubSeq(s, 1, k - 1)>> \o Split(SubSeq(s, k + 1, Len(s)), sep)

DigitChars == <<"0", "1", "2", "3", "4", "5", "6", "7", "8", "9">>

IsDigit(c) == \E k \in 1..Len(DigitChars) : DigitChars[k] = c

\* the number a string of digits denotes
RECURSIVE DecimalValue(_)
DecimalValue(seg) ==
    IF seg = <<>> THEN 0
    ELSE 10 * DecimalValue(SubSeq(seg, 1, Len(seg) - 1))
         + (CHOOSE k \in 1..Len(DigitChars) : DigitChars[k] = seg[Len(seg)]) - 1

\* seg is a decimal numeral without leading zeros of a value in 0..255
IsByteNumeral(seg) ==
    /\ seg # <<>>
    /\ \A k \in 1..Len(seg) : IsDigit(seg[k])
    /\ Len(seg) = 1 \/ seg[1] # "0"
    /\ DecimalValue(seg) <= 255

IsDottedQuad(s) ==
    LET segs == Split(s, ".")
    IN  Len(segs) = 4 /\ \A k \in 1..4 : IsByteNumeral(segs[k])

\* C23: net.isIPv4(s) returns true exactly when s is four segments separated
\* by dots, each a decimal numeral of a value in 0..255 without leading
\* zeros, and nothing else.
C23_IsIPv4DottedQuad ==
    "isIPv4" \in netCalled => (netIsIPv4 <=> IsDottedQuad(netInput))

\* C23 witness: isIPv4 has returned true for a string with the segments 0,
\* 249 and 255
C23_Witness ==
    /\ "isIPv4" \in netCalled
    /\ netIsIPv4
    /\ LET segs == Split(netInput, ".")
       IN  /\ \E k \in 1..Len(segs) : segs[k] = <<"0">>
           /\ \E k \in 1..Len(segs) : segs[k] = <<"2", "4", "9">>
           /\ \E k \in 1..Len(segs) : segs[k] = <<"2", "5", "5">>

\* C24: net.isIP(s) returns 4 exactly when isIPv4(s) holds, 6 exactly when
\* isIPv6(s) holds and 0 otherwise, and no string satisfies both tests.
C24_IsIPAgreesWithBothTests ==
    netCalled = {"isIPv4", "isIPv6", "isIP"} =>
        /\ netIsIP \in {0, 4, 6}
        /\ netIsIP = 4 <=> netIsIPv4
        /\ netIsIP = 6 <=> netIsIPv6
        /\ netIsIP = 0 <=> (~netIsIPv4 /\ ~netIsIPv6)
        /\ ~(netIsIPv4 /\ netIsIPv6)

\* C24 witness: the three functions have been applied to a version 6 address
\* that ends with a dotted quad, and isIP returned 6
C24_Witness ==
    /\ netCalled = {"isIPv4", "isIPv6", "isIP"}
    /\ netIsIP = 6
    /\ \E k \in 1..Len(netInput) :
          netInput[k] = ":" /\ IsDottedQuad(SubSeq(netInput, k + 1, Len(netInput)))

\* C25: the search segment delivered for a search issued with query q is
\* sorted by the comparator evaluated with q: currentLookFor, which the
\* comparator reads, equals q when the sort runs.
C25_SortReadsOwnQuery ==
    \A r \in Delivered :
        Len(r.query) > 0 =>
            /\ r.sortQuery = r.query
            /\ \A j, k \in 1..Len(SearchSegment(r)) :
                  j < k => compareItems(SearchSegment(r)[j], SearchSegment(r)[k],
                                        r.query) <= 0

\* C26: an onType call that passed the roots check, whose token no later
\* onType or onClose has cancelled and whose search promise (for a non-empty
\* query) has resolved, invokes its acceptor exactly once: once the call has
\* come to its end, the acceptor has been invoked.
C26_UncancelledCallDelivers ==
    \A r \in Invocations :
        (~r.cancelled /\ r.pc \in {"done", "threw"}) => r.accepted = 1

\* C27: onClose leaves isOpen false and every pending search with a cancelled
\* token; and a search whose token is cancelled while its promise is pending
\* keeps that token, and ends, when the promise resolves, without a call of
\* the acceptor.
C27_CloseCancelsPendingSearch ==
    /\ [][OnClose =>
             /\ ~isOpen'
             /\ \A i \in 1..Len(invs') :
                   invs'[i].pc = "searching" => invs'[i].cancelled]_vars
    /\ [][\A i \in 1..Len(invs) :
             (invs[i].cancelled /\ invs[i].pc \in {"searching", "resolved"})
             => /\ invs'[i].cancelled
                /\ invs'[i].accepted = 0
                /\ invs'[i].pc \in {"searching", "resolved", "unhandled", "done"}]_vars

\* C27 witness: the dialog is closed; the only search, pending when onClose
\* cancelled its token, has resolved with results and its handler has
\* returned without a call of the acceptor
C27_Witness ==
    /\ ~isOpen
    /\ locations = <<>>
    /\ Len(invs) = 1
    /\ invs[1].cancelled
    /\ invs[1].results # <<>>
    /\ invs[1].pc = "done" /\ invs[1].accepted = 0

\* what open() does to the three fields: toggles hideIgnoredFiles when the
\* dialog is open, resets all three when it is closed; and onClose closes
OpenTogglesOrResets ==
    /\ Open => IF isOpen
               THEN /\ hideIgnoredFiles' = ~hideIgnoredFiles
                    /\ currentLookFor' = currentLookFor
                    /\ isOpen'
               ELSE /\ hideIgnoredFiles'
                    /\ currentLookFor' = <<>>
                    /\ isOpen'
    /\ OnClose => ~isOpen'
    /\ (hideIgnoredFiles' # hideIgnoredFiles \/ (isOpen' /\ ~isOpen)) => Open

\* the call i of onType issues its search in this step
IssuesFind(i) ==
    /\ i \in 1..Len(invs')
    /\ invs'[i].finds = 1
    /\ i \in 1..Len(invs) => invs[i].finds = 0

\* C28 as stated: open() toggles hideIgnoredFiles and leaves currentLookFor and
\* isOpen alone when the dialog is open, and otherwise sets them to true, ''
\* and true, so that the first open() after an onClose starts with ignored
\* files hidden and an empty query; and the useGitIgnore option of a search is
\* the value hideIgnoredFiles had when its onType was called.
C28_FindSeesFlagAtCall ==
    [][/\ OpenTogglesOrResets
       /\ \A i \in 1..Len(invs') :
             invs'[i].pc = "searching" => invs'[i].useGitIgnore = invs'[i].hideAtCall]_vars

\* C28 amended: the same of open(), and the useGitIgnore option of a search is
\* the value hideIgnoredFiles has when find is called, that is after the
\* awaits of the history pass.
C28_FindSeesFlagAtFind ==
    [][/\ OpenTogglesOrResets
       /\ \A i \in 1..Len(invs') :
             IssuesFind(i) => invs'[i].useGitIgnore = hideIgnoredFiles]_vars

\* a search issued with ignored files shown: open() toggled the flag while the
\* call was in its history pass, and the dialog had been closed and opened
\* again before
C28_Witness ==
    /\ Len(invs) = 2
    /\ invs[2].pc = "searching" /\ invs[2].recent # <<>>
    /\ invs[2].hideAtCall /\ ~invs[2].useGitIgnore
    /\ ~hideIgnoredFiles /\ isOpen
    /\ invs[1].cancelled

\* C29: onType called while the workspace has no roots calls no acceptor and no
\* find, leaves currentLookFor as it is and cancels no token: the calls made
\* before are where they were, each with its token as it was, and a search
\* started before goes on to deliver.
C29_RootlessTypeIsNoOp ==
    [][(\E lookFor \in Queries : OnType(lookFor, FALSE)) =>
          /\ currentLookFor' = currentLookFor
          /\ Len(invs') = Len(invs)
          /\ \A i \in 1..Len(invs) :
                /\ invs'[i].cancelled = invs[i].cancelled
                /\ invs'[i].pc = invs[i].pc
                /\ invs'[i].finds = invs[i].finds
                /\ invs'[i].accepted = invs[i].accepted
                /\ invs'[i].out = invs[i].out]_vars

\* C29 witness: the only call of onType that was followed by another one was
\* followed by a rootless one while its search was pending; its token is
\* un-cancelled and it delivered what the search found
C29_Witness ==
    /\ Len(invs) = 1
    /\ invs[1].typedBeforeResolve /\ ~invs[1].rootedBeforeResolve
    /\ ~invs[1].cancelled /\ invs[1].finds = 1
    /\ invs[1].accepted = 1 /\ SearchSegment(invs[1]) # <<>>
    /\ currentLookFor = invs[1].query

\* C30: after a git event has been handled every repository of allRepositories
\* has a registered SCM provider, and no repository that disappeared since
\* the previous event (or since onStart) still has its SCM repository, however
\* many repositories were added or removed in between.
C30_EventSyncsAllRepositories ==
    [][OnGitEvent =>
          /\ LocalUris(allRepositories) \subseteq LocalUris(scmRepositories')
          /\ \A uri \in LocalUris(dirtyRepositories) \ LocalUris(allRepositories) :
                uri \notin LocalUris(scmRepositories')]_vars

\* C31: no view-container widget is in the application shell before the
\* application has been in state 'ready'; while the registry waits for the
\* state-changed event 'ready' no then-callback has run and the shell holds no
\* widget, which stays so when the event never comes.
C31_NoWidgetBeforeReady ==
    /\ shell # <<>> => applicationState # "init"
    /\ pending = "waiting" => shell = <<>> /\ steps = 0

\* C31 witness: two containers registered before the application was ready
\* were added after the event
C31_Witness ==
    /\ pending = "fired"
    /\ Len(shell) = 2

\* C31 second witness: the registry started to wait after the application had
\* left state 'ready', and its containers are not in the shell
C31_WitnessNeverReady ==
    /\ pending = "waiting"
    /\ applicationState = "closing_window"
    /\ Len(widgets) = MaxContainers

\* C32: the shell holds the view-container widgets in the order of the
\* registerViewContainer calls that created them, none twice, one for each
\* then-callback that has run, each in the area asked for when that is a side
\* area and in 'left' otherwise.
C32_AddedInCallOrder ==
    /\ Len(shell) = steps
    /\ \A n \in 1..Len(shell) :
          /\ shell[n].widget = n
          /\ shell[n].area = IF widgets[n].location \in {"left", "right", "bottom"}
                             THEN widgets[n].location ELSE "left"

\* C32 witness: a container asked for in 'right' and then one asked for in
\* 'main', with the same id, are in the shell
C32_Witness ==
    /\ Len(shell) = 2
    /\ widgets[1].location = "right" /\ shell[1].area = "right"
    /\ widgets[2].location = "main" /\ shell[2].area = "left"
    /\ widgets[1].id = widgets[2].id

\* the tree-view widgets of every container, and nothing else of them
TreesOf(ws) == [k \in 1..Len(ws) |-> ws[k].trees]

\* C33: a callback of onRegisterTreeView(viewId, w) acts only when every
\* widget created by a registerViewContainer call made before that call is in
\* the shell; it then adds w to its container and activates it when the
\* container has the view viewId, and changes nothing otherwise; no other
\* container is changed, and nothing else adds a tree-view widget or
\* activates a container.
C33_TreeViewAfterEarlierAdditions ==
    [][/\ \A j \in 1..Len(treeCalls) :
             (~treeCalls[j].ran /\ treeCalls'[j].ran) =>
                LET call == treeCalls[j]
                    k == call.widget
                IN  /\ steps >= call.waitFor
                    /\ \A n \in 1..call.waitFor : getTabBarFor(n)
                    /\ \A n \in 1..Len(widgets) : n # k => widgets'[n] = widgets[n]
                    /\ IF call.viewId \in widgets[k].views
                       THEN /\ widgets'[k].trees =
                                  widgets[k].trees \cup {<<call.viewId, call.tree>>}
                            /\ activated' = activated \cup {widgets[k].id}
                       ELSE /\ widgets'[k] = widgets[k]
                            /\ activated' = activated
       /\ (\/ activated' # activated
           \/ TreesOf(widgets') # TreesOf(widgets) \o SubSeq(TreesOf(widgets'), Len(widgets) + 1, Len(widgets'))) =>
             \E j \in 1..Len(treeCalls) : ~treeCalls[j].ran /\ treeCalls'[j].ran]_vars

\* C33 witness: registered before the application was ready, one container
\* with the view got the tree-view widget and was activated, the other,
\* without the view, was left as it was
C33_Witness ==
    /\ pending = "fired"
    /\ Len(treeCalls) = 2
    /\ \A j \in 1..2 : treeCalls[j].ran /\ treeCalls[j].waitFor = 2
    /\ \E k, n \in 1..Len(widgets) :
          /\ widgets[k].trees # {} /\ widgets[k].id \in activated
          /\ widgets[n].trees = {} /\ widgets[n].id \notin activated

\* the two emitter maps have the same keys
EmitterMapsAgree == onDidChangeCommandEmitterMap = onDidChangeRepositoryEmitterMap

\* every key of the emitter maps is the rootUri of a registered, not disposed
\* SCM provider
EmitterKeysAreRegistered ==
    onDidChangeCommandEmitterMap \cup onDidChangeRepositoryEmitterMap
        \subseteq LocalUris(scmRepositories)

\* the last listener fired emitters only for uris of registered, not disposed
\* SCM providers
FiresOnlyForRegistered == \A fired \in gitFired : fired[2] \in LocalUris(scmRepositories)

\* C34: the two emitter maps have the same keys, which are exactly the
\* rootUris of the registered, not disposed SCM providers, and no listener
\* fires a status-bar command or a change event for a uri whose provider is
\* disposed.
C34_EmitterKeysAreProviders ==
    /\ EmitterMapsAgree
    /\ onDidChangeCommandEmitterMap = LocalUris(scmRepositories)
    /\ FiresOnlyForRegistered

\* the indices of the selected SCM repositories
SelectedRepositories(selected) == {n \in 1..Len(selected) : selected[n]}

\* C35: after the onDidChangeRepository listener ran for a repository while
\* there is more than one repository, no SCM repository is selected but one
\* whose provider has the rootUri of that repository, and one is when there is
\* such an SCM repository; after it ran with no repository the three git
\* elements are not in the status bar and the selection is as it was.
C35_SelectionFollowsRepository ==
    [][\A repository \in Repositories \cup {NoRepository} :
          OnDidChangeRepository(repository) =>
             IF repository = NoRepository
             THEN /\ statusBar' \cap StatusBarElements = {}
                  /\ scmSelected' = scmSelected
             ELSE hasMultipleRepositories =>
                    /\ \A n \in SelectedRepositories(scmSelected') :
                          scmRepositories[n] = repository
                    /\ Cardinality(SelectedRepositories(scmSelected')) =
                          IF repository \in LocalUris(scmRepositories) THEN 1 ELSE 0]_vars

\* C35 witness: with two repositories and their two SCM repositories the
\* listener ran for the second one, which alone is selected
C35_Witness ==
    /\ hasMultipleRepositories
    /\ scmRepositories = <<"/r1", "/r2">>
    /\ scmSelected = <<FALSE, TRUE>>
    /\ gitFired = {<<"CHANGE_REPOSITORY", "/r2">>}

====
